---- MODULE Spec2Model ----
(***************************************************************************)
(* MovieNight: the model-version lifecycle (model_versioning.py), the      *)
(* retraining orchestration (retrain_model.py, app.py routes) and the      *)
(* recommendation-quality tracker (recommendation_tracker.py), modelled    *)
(* over one SQLite database.                                               *)
(*                                                                         *)
(* Numbers.  Scores live in [0,1]; they are kept here in tenths            *)
(* (Scale = 10), so a predicted_score of 0.8 is 8 and a quality_score of   *)
(* 0.3 is 3.  A user rating is an integer 0..10; rating / 10.0 is then the *)
(* same integer read in tenths, and the raw rating r as a real number is   *)
(* r * Scale tenths.  Arithmetic on tenths is exact (binary floating point *)
(* rounding of the source is not modelled).  Time is counted in days.      *)
(***************************************************************************)
EXTENDS Integers, Sequences, FiniteSets, TLC

VARIABLES
    now,                        \* the database clock (CURRENT_TIMESTAMP), in days
    model_versions,             \* table model_versions, in insertion order
    recommendation_sets,        \* table recommendation_sets (committed rows)
    recommendation_set_items,   \* table recommendation_set_items (committed rows)
    recommendation_quality,     \* table recommendation_quality (committed rows)
    save_tx,                    \* the open transaction of a save_recommendation_set call
    db_writer,                  \* connection holding SQLite's write lock (0: none)
    act,                        \* the calls under way on the two worker connections
    ab_tests,                   \* table ab_tests, in insertion order
    negative_training_examples, \* table negative_training_examples, in insertion order
    feature_config,             \* the feature configuration apply_feature_adjustments is fed
    user_dislikes,              \* table user_dislikes, in insertion order
    movies,                     \* table movies: the rows, one per (id, user_id)
    ret                         \* the last call made and what it returned

vars == <<now, model_versions, recommendation_sets, recommendation_set_items,
          recommendation_quality, save_tx, db_writer, act, ab_tests,
          negative_training_examples, feature_config, user_dislikes, movies, ret>>

trackerTables == <<recommendation_sets, recommendation_set_items, recommendation_quality>>

feedbackState == <<negative_training_examples, feature_config, user_dislikes>>

----------------------------------------------------------------------------
(* Bounds of the model *)

MaxVersions == 2
MaxDay == 32
MaxQuality == 1
MaxQualityLong == 5
MaxSets == 1
MaxDayRoutes == 7

(* Program constants *)

Scale == 10
ActiveDays == 30
EvalWindowDays == 7
RecentDays == 30
RetrainDaysBack == 30
CorrectTolerance == 2
MinValidated == 5
DefaultMinSamples == 5
RetrainThreshold == 5
ImprovementMargin == 5

NULL == <<>>

----------------------------------------------------------------------------
(* Small helpers *)

Abs(x) == IF x < 0 THEN -x ELSE x

Max(a, b) == IF a > b THEN a ELSE b

RECURSIVE SumSeq(_)
SumSeq(s) == IF s = <<>> THEN 0 ELSE Head(s) + SumSeq(Tail(s))

----------------------------------------------------------------------------
(* model_versioning.py *)

RECURSIVE Gcd(_, _)
Gcd(a, b) == IF b = 0 THEN a ELSE Gcd(b, a % b)

\* the number correct / total (total > 0), kept as a fraction in lowest terms
Ratio(correct, total) == <<correct \div Gcd(correct, total), total \div Gcd(correct, total)>>

VersionIds == 1..MaxVersions
\* an id that names no row (any string may be passed to the routes)
UnknownVersion == MaxVersions + 1
\* get_active_model_version's fallback "v1_initial", which has no row
V1Initial == 0

VersionIndex(mv, version_id) == {i \in DOMAIN mv : mv[i].version_id = version_id}

ActiveVersions(mv) == {mv[i].version_id : i \in {j \in DOMAIN mv : mv[j].status = "active"}}

\* INSERT INTO model_versions (version_id, status, training_samples, parent_version_id, ...)
\* InsertVersion if the INSERT also retired the versions in production
InsertVersion_Supersede(mv, base_version, total_predictions, clock) ==
    Append([i \in DOMAIN mv |->
                IF mv[i].status = "active" THEN [mv[i] EXCEPT !.status = "inactive"]
                ELSE mv[i]],
           [version_id        |-> Len(mv) + 1,
            status            |-> "training",
            created_at        |-> clock,
            training_samples  |-> total_predictions,
            test_accuracy     |-> NULL,
            active_until      |-> NULL,
            parent_version_id |-> base_version])

InsertVersion(mv, base_version, total_predictions, clock) ==
    Append(mv, [version_id        |-> Len(mv) + 1,
                status            |-> "training",
                created_at        |-> clock,
                training_samples  |-> total_predictions,
                test_accuracy     |-> NULL,
                active_until      |-> NULL,
                parent_version_id |-> base_version])

\* UPDATE model_versions SET test_accuracy = ?, status = 'ready' WHERE version_id = ?
UpdateEvaluated(mv, version_id, accuracy) ==
    [i \in DOMAIN mv |->
        IF mv[i].version_id = version_id
        THEN [mv[i] EXCEPT !.test_accuracy = accuracy, !.status = "ready"]
        ELSE mv[i]]

\* DeactivateAll without its UPDATE: what the store would be if the statement were skipped
DeactivateAll_Skip(mv) == mv

\* UPDATE model_versions SET status = 'inactive' WHERE status = 'active'
DeactivateAll(mv) ==
    [i \in DOMAIN mv |->
        IF mv[i].status = "active" THEN [mv[i] EXCEPT !.status = "inactive"] ELSE mv[i]]

\* UPDATE model_versions SET status = 'active', active_until = now + 30 days WHERE version_id = ?
ActivateOne(mv, version_id, clock) ==
    [i \in DOMAIN mv |->
        IF mv[i].version_id = version_id
        THEN [mv[i] EXCEPT !.status = "active", !.active_until = <<clock + ActiveDays>>]
        ELSE mv[i]]

\* the two UPDATEs of activate_model_version, in one transaction
ActivateResult(mv, version_id, deactivate_previous, clock) ==
    ActivateOne(IF deactivate_previous THEN DeactivateAll(mv) ELSE mv, version_id, clock)

\* rows of recommendation_quality checked within the last `days` days
RecentQuality(rq, clock, days) == SelectSeq(rq, LAMBDA q : q.checked_at > clock - days)

\* abs(pred - actual) <= 0.2 over the stored columns (actual_rating is stored raw)
EvalCorrect(pred, actual) == Abs(pred - actual) <= CorrectTolerance

RECURSIVE CountCorrect(_)
CountCorrect(test_records) ==
    IF test_records = <<>> THEN 0
    ELSE (IF EvalCorrect(Head(test_records)[1], Head(test_records)[2]) THEN 1 ELSE 0)
         + CountCorrect(Tail(test_records))

\* EvalSample without the 7-day window
EvalSample_AllTime(rq, clock) ==
    [i \in DOMAIN rq |-> <<rq[i].predicted_score, rq[i].actual_rating>>]

\* the (predicted_score, actual_rating) pairs evaluate_model_version reads when
\* test_data is None (every recent row: the LIMIT of 500 is never reached here)
EvalSample(rq, clock) ==
    LET recent == RecentQuality(rq, clock, EvalWindowDays)
    IN  [i \in DOMAIN recent |-> <<recent[i].predicted_score, recent[i].actual_rating>>]

----------------------------------------------------------------------------
(* recommendation_tracker.py: titles *)

\* A title is a sequence of characters ("E_acute", "e_acute": one accented letter).
TUp       == <<"U", "p">>
TUpPadded == <<" ", "u", "p", " ">>
TUps      == <<"U", "p", "s">>
TOther    == <<"X">>
TUnknown  == <<"U", "n", "k", "n", "o", "w", "n">>

\* Python str.lower(): Unicode aware
PyLowerChar(c) == IF c = "U" THEN "u" ELSE IF c = "X" THEN "x" ELSE IF c = "E_acute" THEN "e_acute" ELSE c

PyLower(s) == [i \in DOMAIN s |-> PyLowerChar(s[i])]

\* SQLite LOWER(): ASCII letters only
SqlLowerChar(c) == IF c = "U" THEN "u" ELSE IF c = "X" THEN "x" ELSE c

SqlLower(s) == [i \in DOMAIN s |-> SqlLowerChar(s[i])]

RECURSIVE LStrip(_)
LStrip(s) == IF s # <<>> /\ Head(s) = " " THEN LStrip(Tail(s)) ELSE s

RECURSIVE RStrip(_)
RStrip(s) == IF s # <<>> /\ s[Len(s)] = " " THEN RStrip(SubSeq(s, 1, Len(s) - 1)) ELSE s

\* Python str.strip()
PyStrip(s) == RStrip(LStrip(s))

\* x LIKE '%' || pat || '%' : pat occurs in x, ASCII letters compared without case
SqlLikeContains(x, pat) ==
    \E k \in 0..(Len(x) - Len(pat)) :
        SqlLower(SubSeq(x, k + 1, k + Len(pat))) = SqlLower(pat)

\* normalized_title = movie_title.strip().lower()
NormalizedTitle(movie_title) == PyLower(PyStrip(movie_title))

\* WHERE LOWER(rsi.movie_title) = ?
ExactTitleMatch(item_title, normalized_title) == SqlLower(item_title) = normalized_title

\* WHERE LOWER(rsi.movie_title) LIKE '%norm%' OR LOWER(norm) LIKE '%' || LOWER(rsi.movie_title) || '%'
PartialTitleMatch(item_title, normalized_title) ==
    \/ SqlLikeContains(SqlLower(item_title), normalized_title)
    \/ SqlLikeContains(SqlLower(normalized_title), SqlLower(item_title))

----------------------------------------------------------------------------
(* recommendation_tracker.py: queries *)

\* dict.get(key, default)
Get(d, key, default) == IF key \in DOMAIN d THEN d[key] ELSE default

\* SetEligible without the is_valid condition
SetEligible_IgnoreValidity(rs, user_id, clock) ==
    /\ rs.user_id = user_id
    /\ rs.generated_at > clock - RecentDays

\* rs.user_id = ? AND rs.is_valid = 1 AND rs.generated_at > datetime('now', '-30 days')
SetEligible(rs, user_id, clock) ==
    /\ rs.user_id = user_id
    /\ rs.is_valid = 1
    /\ rs.generated_at > clock - RecentDays

\* the item rows (indices) the JOIN yields for this user in the exact query, or in
\* the partial one
Candidates(sets, items, user_id, normalized_title, clock, partial) ==
    {i \in DOMAIN items :
        /\ items[i].recommendation_set_id \in DOMAIN sets
        /\ SetEligible(sets[items[i].recommendation_set_id], user_id, clock)
        /\ IF partial THEN PartialTitleMatch(items[i].movie_title, normalized_title)
                      ELSE ExactTitleMatch(items[i].movie_title, normalized_title)}

\* ORDER BY rsi.rank_position ASC LIMIT 1: any row of least rank (ties are not ordered)
FirstByRank(items, cand) ==
    {i \in cand : \A j \in cand : items[i].rank_position <= items[j].rank_position}

\* the rows cur.fetchone() may return after the exact query and its partial fallback
FoundRecommendation(sets, items, user_id, movie_title, clock) ==
    LET norm  == NormalizedTitle(movie_title)
        exact == Candidates(sets, items, user_id, norm, clock, FALSE)
    IN  IF exact # {} THEN FirstByRank(items, exact)
        ELSE FirstByRank(items, Candidates(sets, items, user_id, norm, clock, TRUE))

\* quality_score = max(0.0, 1.0 - error)
QualityScore(predicted_score, actual_rating_norm) ==
    Max(0, Scale - Abs(predicted_score - actual_rating_norm))

\* is_accurate = error <= 0.2
IsAccurate(predicted_score, actual_rating_norm) ==
    Abs(predicted_score - actual_rating_norm) <= CorrectTolerance

\* the value bound to the actual_rating column: user_rating, as passed in
StoredActualRating(user_rating) == user_rating * Scale

\* the row INSERTed when the movie was found in a recommendation set
FoundQualityRow(item, user_id, movie_id, movie_title, user_rating, clock) ==
    [recommendation_set_id |-> item.recommendation_set_id,
     user_id         |-> user_id,
     movie_id        |-> movie_id,
     movie_title     |-> movie_title,
     predicted_score |-> item.predicted_score,
     actual_rating   |-> StoredActualRating(user_rating),
     quality_score   |-> QualityScore(item.predicted_score, user_rating),
     was_correct     |-> IsAccurate(item.predicted_score, user_rating),
     checked_at      |-> clock]

\* ExternalQualityRow if the external row were scored like a found one, against a
\* prediction of 0
ExternalQualityRow_Scored(user_id, movie_id, movie_title, user_rating, clock) ==
    [recommendation_set_id |-> 0,
     user_id         |-> user_id,
     movie_id        |-> movie_id,
     movie_title     |-> movie_title,
     predicted_score |-> 0,
     actual_rating   |-> StoredActualRating(user_rating),
     quality_score   |-> QualityScore(0, user_rating),
     was_correct     |-> IsAccurate(0, user_rating),
     checked_at      |-> clock]

\* the row INSERTed when it was not: VALUES (0, ?, ?, ?, 0.0, ?, 0.0, 0, CURRENT_TIMESTAMP)
ExternalQualityRow(user_id, movie_id, movie_title, user_rating, clock) ==
    [recommendation_set_id |-> 0,
     user_id         |-> user_id,
     movie_id        |-> movie_id,
     movie_title     |-> movie_title,
     predicted_score |-> 0,
     actual_rating   |-> StoredActualRating(user_rating),
     quality_score   |-> 0,
     was_correct     |-> FALSE,
     checked_at      |-> clock]

----------------------------------------------------------------------------
(* SQLite connections and the write lock *)

\* connection ids: the two activation calls are 1 and 2
Workers == {1, 2}
SaveConn == 3

\* a connection's first INSERT/UPDATE opens a transaction and takes the write
\* lock, which it keeps until commit or rollback; one connection holds it at a time
CanWrite(conn) == db_writer \in {0, conn}

IdleTx == [pc |-> "idle"]

IdleAct == [w \in Workers |-> [pc |-> "idle"]]

----------------------------------------------------------------------------
(* Operations of model_versioning.py *)

\* create_model_version(base_version, weights_data, reason)
CreateVersion(base_version, total_predictions) ==
    /\ db_writer = 0
    /\ Len(model_versions) < MaxVersions
    /\ model_versions' = InsertVersion(model_versions, base_version, total_predictions, now)
    /\ ret' = [op |-> "create_model_version", base_version |-> base_version,
               total_predictions |-> total_predictions,
               version_id |-> Len(model_versions) + 1]
    /\ UNCHANGED <<now, ab_tests, movies, feedbackState, trackerTables, save_tx, db_writer, act>>

\* metrics of evaluate_model_version over test_records (non-empty)
EvalMetrics(test_records) ==
    [accuracy            |-> Ratio(CountCorrect(test_records), Len(test_records)),
     correct_predictions |-> CountCorrect(test_records),
     total_predictions   |-> Len(test_records)]

\* evaluate_model_version(version_id, test_data): test_data is <<>> for None, <<list>> otherwise
EvaluateVersion(version_id, test_data) ==
    LET test_records == IF test_data = <<>>
                        THEN EvalSample(recommendation_quality, now)
                        ELSE test_data[1]
    IN  /\ db_writer = 0
        /\ IF test_records = <<>>
           THEN /\ ret' = [op |-> "evaluate_model_version", version_id |-> version_id,
                           test_data |-> test_data, metrics |-> NULL]
                /\ UNCHANGED model_versions
           ELSE /\ model_versions' = UpdateEvaluated(model_versions, version_id,
                                                     EvalMetrics(test_records).accuracy)
                /\ ret' = [op |-> "evaluate_model_version", version_id |-> version_id,
                           test_data |-> test_data,
                           metrics |-> <<EvalMetrics(test_records)>>]
        /\ UNCHANGED <<now, ab_tests, movies, feedbackState, trackerTables, save_tx, db_writer, act>>

\* activate_model_version(version_id, deactivate_previous), run alone
ActivateVersion(version_id, deactivate_previous) ==
    /\ db_writer = 0
    /\ model_versions' = ActivateResult(model_versions, version_id, deactivate_previous, now)
    /\ ret' = [op |-> "activate_model_version", version_id |-> version_id,
               deactivate_previous |-> deactivate_previous]
    /\ UNCHANGED <<now, ab_tests, movies, feedbackState, trackerTables, save_tx, db_writer, act>>

\* time passes
Tick(days, max_day) ==
    /\ now + days <= max_day
    /\ now' = now + days
    /\ ret' = [op |-> "tick"]
    /\ UNCHANGED <<model_versions, trackerTables, save_tx, db_writer, act, ab_tests, movies,
                   feedbackState>>

----------------------------------------------------------------------------
(* Operations of recommendation_tracker.py *)

\* the result dict of validate_recommendation_against_rating
ValidationResult(found, item, user_rating) ==
    IF found
    THEN [was_in_recommendations |-> TRUE,
          recommendation_set_id  |-> <<item.recommendation_set_id>>,
          predicted_score        |-> item.predicted_score,
          actual_rating          |-> user_rating,
          quality_score          |-> QualityScore(item.predicted_score, user_rating),
          is_accurate            |-> IsAccurate(item.predicted_score, user_rating)]
    ELSE [was_in_recommendations |-> FALSE,
          recommendation_set_id  |-> NULL,
          predicted_score        |-> 0,
          actual_rating          |-> user_rating,
          quality_score          |-> 0,
          is_accurate            |-> FALSE]

\* validate_recommendation_against_rating(user_id, movie_id, movie_title, user_rating)
Validate(user_id, movie_id, movie_title, user_rating, max_quality) ==
    LET found == FoundRecommendation(recommendation_sets, recommendation_set_items,
                                     user_id, movie_title, now)
        call  == [op |-> "validate", user_id |-> user_id, movie_id |-> movie_id,
                  movie_title |-> movie_title, user_rating |-> user_rating]
    IN  /\ db_writer = 0
        /\ Len(recommendation_quality) < max_quality
        /\ IF found # {}
           THEN \E i \in found :
                  LET item == recommendation_set_items[i]
                  IN  /\ recommendation_quality' =
                            Append(recommendation_quality,
                                   FoundQualityRow(item, user_id, movie_id, movie_title,
                                                   user_rating, now))
                      /\ ret' = call @@
                                [result |-> ValidationResult(TRUE, item, user_rating)]
           ELSE /\ recommendation_quality' =
                      Append(recommendation_quality,
                             ExternalQualityRow(user_id, movie_id, movie_title, user_rating, now))
                /\ ret' = call @@ [result |-> ValidationResult(FALSE, <<>>, user_rating)]
        /\ UNCHANGED <<now, ab_tests, movies, feedbackState, model_versions, recommendation_sets, recommendation_set_items,
                       save_tx, db_writer, act>>

\* json.dumps(rec): the JSON object, as its set of "key": value members
JsonDumps(rec) == {<<k, rec[k]>> : k \in DOMAIN rec}

\* json.loads(text): the dict of the members
JsonLoads(text) == [k \in {member[1] : member \in text} |->
                       (CHOOSE member \in text : member[1] = k)[2]]

\* the recommendation_set_items row built from one recommendation dict; full_data is
\* <<text>>, a non-empty string
ItemRow(recommendation_set_id, rank, rec) ==
    [recommendation_set_id |-> recommendation_set_id,
     movie_id        |-> Get(rec, "id", NULL),
     movie_title     |-> Get(rec, "title", TUnknown),
     predicted_score |-> Get(rec, "hybrid_score", Get(rec, "score", 0)),
     rank_position   |-> rank,
     full_data       |-> <<JsonDumps(rec)>>]

\* the recommendation_sets row: VALUES (?, ?, CURRENT_TIMESTAMP, 1)
SetRow(user_id, recommendation_type, clock) ==
    [user_id |-> user_id, recommendation_type |-> recommendation_type,
     generated_at |-> clock, is_valid |-> 1]

\* AfterSaveError without the rollback: the rows inserted so far stay
AfterSaveError_KeepPartial(sets, items, pending_set, pending_items) ==
    <<Append(sets, pending_set), items \o pending_items>>

\* what the except branch leaves behind: conn.rollback() drops the pending rows
AfterSaveError(sets, items, pending_set, pending_items) == <<sets, items>>

\* what conn.commit() leaves behind: the set row and every item row
AfterSaveCommit(sets, items, pending_set, pending_items) ==
    <<Append(sets, pending_set), items \o pending_items>>

\* save_recommendation_set, up to the INSERT of the set row; insert_ok is whether
\* SQLite accepts that INSERT
SaveCall(user_id, recommendations, recommendation_type, insert_ok, max_sets) ==
    /\ save_tx.pc = "idle"
    /\ CanWrite(SaveConn)
    /\ Len(recommendation_sets) < max_sets
    /\ IF insert_ok
       THEN /\ save_tx' = [pc |-> "items", user_id |-> user_id,
                           recommendations |-> recommendations,
                           set_id |-> Len(recommendation_sets) + 1,
                           set_row |-> SetRow(user_id, recommendation_type, now),
                           item_rows |-> <<>>]
            /\ db_writer' = SaveConn
            /\ ret' = [op |-> "save_call"]
       ELSE /\ save_tx' = IdleTx
            /\ db_writer' = 0
            /\ ret' = [op |-> "save_recommendation_set", user_id |-> user_id,
                       recommendations |-> recommendations, set_id |-> -1,
                       items_done |-> 0]
    /\ UNCHANGED <<now, ab_tests, movies, feedbackState, model_versions, trackerTables, act>>

\* one turn of the loop over the recommendations: the INSERT of the next item row
SaveItem(insert_ok) ==
    /\ save_tx.pc = "items"
    /\ Len(save_tx.item_rows) < Len(save_tx.recommendations)
    /\ LET rank == Len(save_tx.item_rows) + 1
           row  == ItemRow(save_tx.set_id, rank, save_tx.recommendations[rank])
           kept == AfterSaveError(recommendation_sets, recommendation_set_items,
                                  save_tx.set_row, save_tx.item_rows)
       IN  IF insert_ok
           THEN /\ save_tx' = [save_tx EXCEPT !.item_rows = Append(@, row)]
                /\ ret' = [op |-> "save_item"]
                /\ UNCHANGED <<recommendation_sets, recommendation_set_items, db_writer>>
           ELSE /\ recommendation_sets' = kept[1]
                /\ recommendation_set_items' = kept[2]
                /\ save_tx' = IdleTx
                /\ db_writer' = 0
                /\ ret' = [op |-> "save_recommendation_set", user_id |-> save_tx.user_id,
                           recommendations |-> save_tx.recommendations, set_id |-> -1,
                           items_done |-> Len(save_tx.item_rows)]
    /\ UNCHANGED <<now, ab_tests, movies, feedbackState, model_versions, recommendation_quality, act>>

\* conn.commit() and return recommendation_set_id; commit_ok is whether SQLite
\* carries the commit out (if not: the except branch, as in the loop)
SaveCommit(commit_ok) ==
    /\ save_tx.pc = "items"
    /\ Len(save_tx.item_rows) = Len(save_tx.recommendations)
    /\ LET kept == IF commit_ok
                   THEN AfterSaveCommit(recommendation_sets, recommendation_set_items,
                                        save_tx.set_row, save_tx.item_rows)
                   ELSE AfterSaveError(recommendation_sets, recommendation_set_items,
                                       save_tx.set_row, save_tx.item_rows)
       IN  /\ recommendation_sets' = kept[1]
           /\ recommendation_set_items' = kept[2]
    /\ save_tx' = IdleTx
    /\ db_writer' = 0
    /\ ret' = [op |-> "save_recommendation_set", user_id |-> save_tx.user_id,
               recommendations |-> save_tx.recommendations,
               set_id |-> IF commit_ok THEN save_tx.set_id ELSE -1,
               items_done |-> Len(save_tx.item_rows)]
    /\ UNCHANGED <<now, ab_tests, movies, feedbackState, model_versions, recommendation_quality, act>>

\* UPDATE recommendation_sets SET is_valid = 0
\* WHERE user_id = ? AND generated_at < datetime('now', '-days days')
InvalidatedSets(sets, user_id, days, clock) ==
    [i \in DOMAIN sets |->
        IF sets[i].user_id = user_id /\ sets[i].generated_at < clock - days
        THEN [sets[i] EXCEPT !.is_valid = 0]
        ELSE sets[i]]

\* invalidate_old_recommendations(user_id, days): returns cur.rowcount
InvalidateOld(user_id, days) ==
    /\ db_writer = 0
    /\ recommendation_sets' = InvalidatedSets(recommendation_sets, user_id, days, now)
    /\ ret' = [op |-> "invalidate_old_recommendations", user_id |-> user_id,
               rowcount |-> Cardinality({i \in DOMAIN recommendation_sets :
                    /\ recommendation_sets[i].user_id = user_id
                    /\ recommendation_sets[i].generated_at < now - days})]
    /\ UNCHANGED <<now, ab_tests, movies, feedbackState, model_versions, recommendation_set_items, recommendation_quality,
                   save_tx, db_writer, act>>

\* get_cached_recommendations iterates over these types
CacheTypes == {"general", "last_added", "genre_based"}

\* WHERE user_id = ? AND recommendation_type = ? AND is_valid = 1
\* ORDER BY generated_at DESC LIMIT 1: the set ids the query may return (sets of one
\* timestamp are not ordered among themselves)
MostRecentValidSets(sets, user_id, rec_type) ==
    LET valid == {i \in DOMAIN sets : /\ sets[i].user_id = user_id
                                      /\ sets[i].recommendation_type = rec_type
                                      /\ sets[i].is_valid = 1}
    IN  {i \in valid : \A j \in valid : sets[i].generated_at >= sets[j].generated_at}

\* the first n elements of a list
FirstN(list, n) == SubSeq(list, 1, IF n < Len(list) THEN n ELSE Len(list))

\* WHERE recommendation_set_id = ? ORDER BY rank_position ASC LIMIT ?, each row turned
\* into json.loads(full_data), or into {"title": movie_title} without full_data; the
\* rows of a set are stored in rank order
CachedItems(items, set_id, limit) ==
    LET rows == FirstN(SelectSeq(items, LAMBDA it : it.recommendation_set_id = set_id), limit)
    IN  [k \in DOMAIN rows |->
            IF rows[k].full_data # NULL THEN JsonLoads(rows[k].full_data[1])
            ELSE [title |-> rows[k].movie_title]]

\* get_cached_recommendations(user_id, limit): reads only
GetCachedRecommendations(user_id, limit) ==
    /\ \E recent_set \in [CacheTypes -> 0..Len(recommendation_sets)] :
          /\ \A t \in CacheTypes :
                LET recent == MostRecentValidSets(recommendation_sets, user_id, t)
                IN  IF recent = {} THEN recent_set[t] = 0 ELSE recent_set[t] \in recent
          /\ ret' = [op |-> "get_cached_recommendations", user_id |-> user_id,
                     limit |-> limit,
                     result |-> [t \in CacheTypes |->
                                   IF recent_set[t] = 0 THEN <<>>
                                   ELSE CachedItems(recommendation_set_items,
                                                    recent_set[t], limit)]]
    /\ UNCHANGED <<now, ab_tests, movies, feedbackState, model_versions, trackerTables, save_tx,
                   db_writer, act>>

\* the rows the revalidation query aggregates: this user's, checked in the last 30 days
RevalidationRows(rq, user_id, clock) ==
    SelectSeq(rq, LAMBDA q : q.user_id = user_id /\ q.checked_at > clock - RecentDays)

\* stats['total'] > 5
EnoughValidated(total) == total > MinValidated

\* AVG(quality_score) < threshold, over `total` rows whose scores sum to `sum_quality`
BelowThreshold(sum_quality, total, threshold) == sum_quality < threshold * total

\* the result dict of check_for_model_revalidation
RevalidationResult(rq, user_id, threshold, clock) ==
    LET rows  == RevalidationRows(rq, user_id, clock)
        total == Len(rows)
        sumq  == SumSeq([i \in DOMAIN rows |-> rows[i].quality_score])
    IN  IF EnoughValidated(total)
        THEN [needs_revalidation |-> BelowThreshold(sumq, total, threshold),
              total_validated    |-> total,
              correct_count      |-> Len(SelectSeq(rows, LAMBDA q : q.was_correct)),
              sum_quality        |-> sumq]
        ELSE [needs_revalidation |-> FALSE,
              total_validated    |-> 0,
              correct_count      |-> 0,
              sum_quality        |-> 0]

\* check_for_model_revalidation(user_id, threshold): reads only
CheckRevalidation(user_id, threshold) ==
    /\ ret' = [op |-> "check_for_model_revalidation", user_id |-> user_id,
               threshold |-> threshold,
               result |-> RevalidationResult(recommendation_quality, user_id, threshold, now)]
    /\ UNCHANGED <<now, ab_tests, movies, feedbackState, model_versions, trackerTables, save_tx, db_writer, act>>

----------------------------------------------------------------------------
(* Retraining: model_versioning.py readers, app.py routes, retrain_model.py *)

\* ShouldRetrain with <= in place of <
ShouldRetrain_AtOrBelow(rq, threshold, clock) ==
    LET recent  == RecentQuality(rq, clock, EvalWindowDays)
        total   == Len(recent)
        correct == Len(SelectSeq(recent, LAMBDA q : q.was_correct))
    IN  IF total = 0 THEN <<FALSE, Ratio(0, 1)>>
        ELSE <<correct * Scale <= threshold * total, Ratio(correct, total)>>

\* should_retrain(accuracy_threshold): <<should_retrain, accuracy>> over the last 7 days;
\* the threshold is in tenths
ShouldRetrain(rq, threshold, clock) ==
    LET recent  == RecentQuality(rq, clock, EvalWindowDays)
        total   == Len(recent)
        correct == Len(SelectSeq(recent, LAMBDA q : q.was_correct))
    IN  IF total = 0 THEN <<FALSE, Ratio(0, 1)>>
        ELSE <<correct * Scale < threshold * total, Ratio(correct, total)>>

\* `if user_id:` adds AND user_id = ? to the query; user_id is <<>> for None
TrainingRecords(rq, user_id, days_back, clock) ==
    SelectSeq(RecentQuality(rq, clock, days_back),
              LAMBDA q : user_id = NULL \/ user_id[1] = 0 \/ q.user_id = user_id[1])

\* EnoughSamples with > in place of >=
EnoughSamples_Strict(count, min_samples) == count > min_samples

\* len(stats["predictions"]) >= min_samples
EnoughSamples(count, min_samples) == count >= min_samples

\* AccuracyWeight without the square
AccuracyWeight_Linear(accuracy) ==
    Ratio(Scale * accuracy[1] + accuracy[2], Scale * accuracy[2])

\* accuracy_weight = (accuracy ** 2) + 0.1, times the recency weight 1.0; 0.1 is 1/Scale
AccuracyWeight(accuracy) ==
    Ratio(Scale * accuracy[1] * accuracy[1] + accuracy[2] * accuracy[2],
          Scale * accuracy[2] * accuracy[2])

\* create_weighted_training_data(user_id, days_back, min_samples): <<>> for None, else
\* <<data>>; movie_stats maps each kept movie_id to its statistics
CreateWeightedTrainingData(rq, user_id, days_back, min_samples, clock) ==
    LET records == TrainingRecords(rq, user_id, days_back, clock)
        movie_ids == {records[i].movie_id : i \in DOMAIN records}
        of(m)   == SelectSeq(records, LAMBDA q : q.movie_id = m)
        right(m) == Len(SelectSeq(of(m), LAMBDA q : q.was_correct))
        kept    == {m \in movie_ids : EnoughSamples(Len(of(m)), min_samples)}
    IN  IF records = <<>> \/ kept = {} THEN <<>>
        ELSE << [movie_stats |->
                    [m \in kept |->
                        [sample_count |-> Len(of(m)),
                         correct      |-> right(m),
                         accuracy     |-> Ratio(right(m), Len(of(m))),
                         weight       |-> AccuracyWeight(Ratio(right(m), Len(of(m))))]],
                 total_predictions |-> Len(records),
                 sample_count      |-> Cardinality(kept)] >>

\* create_weighted_training_data(None, days_back, min_samples), as the retraining
\* callers use it
WeightedTrainingData(rq, days_back, min_samples, clock) ==
    CreateWeightedTrainingData(rq, NULL, days_back, min_samples, clock)

\* a call of create_weighted_training_data: reads only
CreateWeightedTrainingDataCall(user_id, days_back, min_samples) ==
    /\ ret' = [op |-> "create_weighted_training_data", user_id |-> user_id,
               days_back |-> days_back, min_samples |-> min_samples,
               result |-> CreateWeightedTrainingData(recommendation_quality, user_id,
                                                     days_back, min_samples, now)]
    /\ UNCHANGED <<now, ab_tests, movies, feedbackState, model_versions, trackerTables, save_tx,
                   db_writer, act>>

\* a call of should_retrain(None, accuracy_threshold): reads only
ShouldRetrainCall(threshold) ==
    /\ ret' = [op |-> "should_retrain", threshold |-> threshold,
               result |-> ShouldRetrain(recommendation_quality, threshold, now)]
    /\ UNCHANGED <<now, ab_tests, movies, feedbackState, model_versions, trackerTables, save_tx,
                   db_writer, act>>

\* get_active_model_version(): the ids the query may return (status active, not
\* expired, latest created_at first, ties not ordered), or the fallback
GetActiveModelVersion(mv, clock) ==
    LET live == {i \in DOMAIN mv :
                    /\ mv[i].status = "active"
                    /\ (mv[i].active_until = NULL \/ mv[i].active_until[1] > clock)}
        top  == {i \in live : \A j \in live : mv[i].created_at >= mv[j].created_at}
    IN  IF live = {} THEN {V1Initial} ELSE {mv[i].version_id : i \in top}

\* compare_versions: the stored accuracy, or 0 when there is no row or no accuracy
StoredAccuracy(mv, version_id) ==
    IF \E i \in VersionIndex(mv, version_id) : mv[i].test_accuracy # NULL
    THEN (CHOOSE a \in {mv[i].test_accuracy : i \in VersionIndex(mv, version_id)} : a # NULL)
    ELSE Ratio(0, 1)

\* SignificantImprovement if the size of the change were tested: abs(improvement) > 0.05
SignificantImprovement_Magnitude(new_acc, current_acc) ==
    Abs(new_acc[1] * current_acc[2] - current_acc[1] * new_acc[2]) * 100
        > ImprovementMargin * new_acc[2] * current_acc[2]

\* improvement > 0.05, improvement = new_accuracy - current_accuracy
SignificantImprovement(new_acc, current_acc) ==
    (new_acc[1] * current_acc[2] - current_acc[1] * new_acc[2]) * 100
        > ImprovementMargin * new_acc[2] * current_acc[2]

\* POST /api/retrain (trigger_retraining)
TriggerRetraining ==
    LET sr      == ShouldRetrain(recommendation_quality, RetrainThreshold, now)
        weights == WeightedTrainingData(recommendation_quality, RetrainDaysBack,
                                        DefaultMinSamples, now)
        new_id  == Len(model_versions) + 1
    IN  /\ db_writer = 0
        /\ IF ~sr[1] \/ weights = <<>>
           THEN /\ ret' = [op |-> "trigger_retraining", success |-> FALSE]
                /\ UNCHANGED model_versions
           ELSE /\ Len(model_versions) < MaxVersions
                /\ \E current \in GetActiveModelVersion(model_versions, now) :
                     LET mv1   == InsertVersion(model_versions, current,
                                                weights[1].total_predictions, now)
                         tests == EvalSample(recommendation_quality, now)
                     IN  /\ model_versions' =
                               IF tests = <<>> THEN mv1
                               ELSE UpdateEvaluated(mv1, new_id, EvalMetrics(tests).accuracy)
                         /\ ret' = [op |-> "trigger_retraining", success |-> TRUE,
                                    new_version |-> new_id, parent_version |-> current]
        /\ UNCHANGED <<now, ab_tests, movies, feedbackState, trackerTables, save_tx, db_writer, act>>

\* POST /api/activate-version/<version_id> (activate_version)
ActivateVersionRoute(version_id) ==
    /\ db_writer = 0
    /\ model_versions' = ActivateResult(model_versions, version_id, TRUE, now)
    /\ ret' = [op |-> "activate_version", version_id |-> version_id, success |-> TRUE]
    /\ UNCHANGED <<now, ab_tests, movies, feedbackState, trackerTables, save_tx, db_writer, act>>

\* retrain_model.py main(): --force, --dry-run, --threshold, --days, --min-samples
RetrainMain(force, dry_run, threshold, days, min_samples) ==
    LET sr      == ShouldRetrain(recommendation_quality, threshold, now)
        weights == WeightedTrainingData(recommendation_quality, days, min_samples, now)
        new_id  == Len(model_versions) + 1
        tests   == EvalSample(recommendation_quality, now)
    IN  /\ db_writer = 0
        /\ IF dry_run /\ model_versions # <<>>
           THEN \* print_model_stats() raises on the first stored version (the format
                \* specification of its accuracy line), before the try block
                /\ ret' = [op |-> "retrain_main", dry_run |-> dry_run, code |-> 1, outcome |-> "stats_error"]
                /\ UNCHANGED model_versions
           ELSE IF ~force /\ ~sr[1]
           THEN /\ ret' = [op |-> "retrain_main", dry_run |-> dry_run, code |-> 0, outcome |-> "not_needed"]
                /\ UNCHANGED model_versions
           ELSE IF weights = <<>>
           THEN /\ ret' = [op |-> "retrain_main", dry_run |-> dry_run, code |-> 1, outcome |-> "no_data"]
                /\ UNCHANGED model_versions
           ELSE /\ Len(model_versions) < MaxVersions
                /\ \E current \in GetActiveModelVersion(model_versions, now) :
                     LET mv1 == InsertVersion(model_versions, current,
                                              weights[1].total_predictions, now)
                         mv2 == UpdateEvaluated(mv1, new_id, EvalMetrics(tests).accuracy)
                     IN  IF tests = <<>>
                         THEN /\ model_versions' = mv1
                              /\ ret' = [op |-> "retrain_main", dry_run |-> dry_run, code |-> 1,
                                         outcome |-> "evaluation_failed",
                                         new_version |-> new_id,
                                         current_version |-> current]
                         ELSE IF dry_run
                         THEN \* the version is kept; print_model_stats() then raises
                              /\ model_versions' = mv2
                              /\ ret' = [op |-> "retrain_main", dry_run |-> dry_run, code |-> 1,
                                         outcome |-> "dry_run", new_version |-> new_id,
                                         current_version |-> current]
                         ELSE IF SignificantImprovement(StoredAccuracy(mv2, new_id),
                                                        StoredAccuracy(mv2, current))
                         THEN /\ model_versions' = ActivateResult(mv2, new_id, TRUE, now)
                              /\ ret' = [op |-> "retrain_main", dry_run |-> dry_run, code |-> 0,
                                         outcome |-> "activated", new_version |-> new_id,
                                         current_version |-> current]
                         ELSE /\ model_versions' = mv2
                              /\ ret' = [op |-> "retrain_main", dry_run |-> dry_run, code |-> 0,
                                         outcome |-> "kept_current",
                                         new_version |-> new_id,
                                         current_version |-> current]
        /\ UNCHANGED <<now, ab_tests, movies, feedbackState, trackerTables, save_tx, db_writer, act>>

----------------------------------------------------------------------------
(* A/B tests: model_versioning.py start_ab_test, evaluate_ab_test *)

\* a > b for two fractions
RatioGreater(a, b) == a[1] * b[2] > b[1] * a[2]

\* max(a, b): the first argument unless the second is greater
RatioMax(a, b) == IF RatioGreater(b, a) THEN b ELSE a

\* acc = result[0] if result else 0, over SELECT test_accuracy ... WHERE version_id = ?
\* (NULL when the row has no accuracy, 0 when there is no row)
AbAccuracy(mv, version_id) ==
    IF VersionIndex(mv, version_id) = {} THEN Ratio(0, 1)
    ELSE mv[CHOOSE i \in VersionIndex(mv, version_id) : TRUE].test_accuracy

\* the statements from the loop to max() raise: acc_b is never bound when both ids are
\* the same, and None does not compare with a number
AbEvaluationRaises(mv, version_a, version_b) ==
    \/ version_a = version_b
    \/ AbAccuracy(mv, version_a) = NULL
    \/ AbAccuracy(mv, version_b) = NULL

AbWinner_FirstOnTie(version_a, version_b, acc_a, acc_b) ==
    IF RatioGreater(acc_b, acc_a) THEN version_b ELSE version_a

\* winner_id = version_a if acc_a > acc_b else version_b
AbWinner(version_a, version_b, acc_a, acc_b) ==
    IF RatioGreater(acc_a, acc_b) THEN version_a ELSE version_b

\* INSERT INTO ab_tests (test_id, version_a_id, version_b_id, status)
AbTestRow(test_id, version_a, version_b) ==
    [test_id |-> test_id, version_a_id |-> version_a, version_b_id |-> version_b,
     status |-> "running", winner_id |-> NULL, confidence_score |-> NULL]

\* start_ab_test(version_a, version_b): test_id is the wall clock to the second, so
\* a call within the second of the last test started names that test's id again
\* and the UNIQUE column refuses the INSERT (sqlite3.IntegrityError)
StartAbTest(version_a, version_b, same_second, max_tests) ==
    /\ db_writer = 0
    /\ same_second => ab_tests # <<>>
    /\ IF same_second
       THEN /\ ret' = [op |-> "start_ab_test", raised |-> TRUE]
            /\ UNCHANGED ab_tests
       ELSE /\ Len(ab_tests) < max_tests
            /\ ab_tests' = Append(ab_tests,
                                  AbTestRow(Len(ab_tests) + 1, version_a, version_b))
            /\ ret' = [op |-> "start_ab_test", raised |-> FALSE,
                       test_id |-> Len(ab_tests) + 1]
    /\ UNCHANGED <<movies, now, model_versions, trackerTables, save_tx, db_writer, act,
                   feedbackState>>

\* evaluate_ab_test(test_id)
EvaluateAbTest(test_id) ==
    /\ db_writer = 0
    /\ IF test_id \notin DOMAIN ab_tests
       THEN /\ ret' = [op |-> "evaluate_ab_test", test_id |-> test_id, raised |-> FALSE,
                       result |-> NULL]
            /\ UNCHANGED ab_tests
       ELSE LET version_a == ab_tests[test_id].version_a_id
                version_b == ab_tests[test_id].version_b_id
                acc_a     == AbAccuracy(model_versions, version_a)
                acc_b     == AbAccuracy(model_versions, version_b)
            IN  IF AbEvaluationRaises(model_versions, version_a, version_b)
                THEN /\ ret' = [op |-> "evaluate_ab_test", test_id |-> test_id,
                                raised |-> TRUE]
                     /\ UNCHANGED ab_tests
                ELSE /\ ab_tests' =
                          [ab_tests EXCEPT ![test_id] =
                              [@ EXCEPT !.status = "completed",
                                        !.winner_id = <<AbWinner(version_a, version_b,
                                                                 acc_a, acc_b)>>,
                                        !.confidence_score = <<RatioMax(acc_a, acc_b)>>]]
                     /\ ret' = [op |-> "evaluate_ab_test", test_id |-> test_id,
                                raised |-> FALSE,
                                result |-> << [version_a  |-> version_a,
                                               version_b  |-> version_b,
                                               winner     |-> AbWinner(version_a, version_b,
                                                                       acc_a, acc_b),
                                               confidence |-> RatioMax(acc_a, acc_b),
                                               accuracy_a |-> acc_a,
                                               accuracy_b |-> acc_b] >>]
    /\ UNCHANGED <<movies, now, model_versions, trackerTables, save_tx, db_writer, act,
                   feedbackState>>

----------------------------------------------------------------------------
(* activate_model_version, statement by statement, for concurrent calls.
   While db_writer # 0, model_versions shows the writer's own uncommitted view;
   every other operation of the model waits for the lock, so none reads it. *)

\* LockAfterStatement if every statement were committed on its own
LockAfterStatement_Autocommit(conn) == 0

\* who holds the write lock once a statement of connection `conn` has run: the
\* connection itself, since sqlite3.connect() leaves the statements of a call in one
\* transaction that only conn.commit() ends
LockAfterStatement(conn) == conn

\* the call is made: conn = sqlite3.connect(DB_PATH)
ActCall(w, version_id, deactivate_previous) ==
    /\ act[w].pc = "idle"
    /\ act' = [act EXCEPT ![w] = [pc |-> "begin", version_id |-> version_id,
                                  deactivate_previous |-> deactivate_previous,
                                  known |-> VersionIndex(model_versions, version_id) # {}]]
    /\ ret' = [op |-> "activate_call", worker |-> w]
    /\ UNCHANGED <<now, ab_tests, movies, feedbackState, model_versions, trackerTables, save_tx, db_writer>>

\* UPDATE ... SET status = 'inactive' WHERE status = 'active'
ActDeactivate(w) ==
    /\ act[w].pc = "begin"
    /\ act[w].deactivate_previous
    /\ CanWrite(w)
    /\ model_versions' = DeactivateAll(model_versions)
    /\ db_writer' = LockAfterStatement(w)
    /\ act' = [act EXCEPT ![w].pc = "deactivated"]
    /\ ret' = [op |-> "activate_deactivate", worker |-> w]
    /\ UNCHANGED <<now, ab_tests, movies, feedbackState, trackerTables, save_tx>>

\* UPDATE ... SET status = 'active', active_until = ... WHERE version_id = ?
ActActivate(w) ==
    /\ \/ act[w].pc = "deactivated"
       \/ act[w].pc = "begin" /\ ~act[w].deactivate_previous
    /\ CanWrite(w)
    /\ model_versions' = ActivateOne(model_versions, act[w].version_id, now)
    /\ db_writer' = LockAfterStatement(w)
    /\ act' = [act EXCEPT ![w].pc = "activated"]
    /\ ret' = [op |-> "activate_activate", worker |-> w]
    /\ UNCHANGED <<now, ab_tests, movies, feedbackState, trackerTables, save_tx>>

\* conn.commit(); the call returns
ActCommit(w) ==
    /\ act[w].pc = "activated"
    /\ db_writer' = 0
    /\ act' = [act EXCEPT ![w].pc = "done"]
    /\ ret' = [op |-> "activate_return", worker |-> w]
    /\ UNCHANGED <<now, ab_tests, movies, feedbackState, model_versions, trackerTables, save_tx>>

\* the first UPDATE finds the database locked until the busy timeout runs out:
\* sqlite3.OperationalError, the call raises and nothing of it was written
ActBusy(w) ==
    /\ act[w].pc = "begin"
    /\ ~CanWrite(w)
    /\ act' = [act EXCEPT ![w].pc = "failed"]
    /\ ret' = [op |-> "activate_raise", worker |-> w]
    /\ UNCHANGED <<now, ab_tests, movies, feedbackState, model_versions, trackerTables, save_tx, db_writer>>

\* both calls are over; two more may be made
ActReset ==
    /\ \A w \in Workers : act[w].pc \in {"done", "failed"}
    /\ act' = IdleAct
    /\ ret' = [op |-> "activate_reset"]
    /\ UNCHANGED <<now, ab_tests, movies, feedbackState, model_versions, trackerTables, save_tx, db_writer>>

----------------------------------------------------------------------------
(* Initial state: the tables as init_model_versioning and
   create_recommendations_tracking_tables leave them, empty *)

Init ==
    /\ now = 0
    /\ model_versions = <<>>
    /\ recommendation_sets = <<>>
    /\ recommendation_set_items = <<>>
    /\ recommendation_quality = <<>>
    /\ save_tx = IdleTx
    /\ db_writer = 0
    /\ act = IdleAct
    /\ ab_tests = <<>>
    /\ negative_training_examples = <<>>
    /\ feature_config = <<>>
    /\ user_dislikes = <<>>
    /\ movies = {}
    /\ ret = [op |-> "init"]

----------------------------------------------------------------------------
(* The version store under direct calls of create / evaluate / activate *)

\* test_data arguments: None, an empty list, one correct prediction, one wrong one
TestDataInputs ==
    { <<>>, << <<>> >>, << << <<8, 8, 0>> >> >>, << << <<8, 3, 5>> >> >> }

NextVersions ==
    \/ \E base \in {V1Initial} : CreateVersion(base, DefaultMinSamples)
    \/ \E v \in VersionIds \cup {UnknownVersion}, td \in TestDataInputs : EvaluateVersion(v, td)
    \/ \E v \in VersionIds \cup {UnknownVersion}, d \in BOOLEAN : ActivateVersion(v, d)
    \/ Validate(1, 1, TUp, 8, MaxQuality)

SpecVersions == Init /\ [][NextVersions]_vars

----------------------------------------------------------------------------
(* The tracker: recommendation sets saved, ratings validated, sets invalidated *)

Users == {1, 2}

RecUp  == [title |-> TUp, hybrid_score |-> 8, id |-> 1]
RecUps == [title |-> TUps, score |-> 3]

\* the lists of recommendations saved
RecLists == { <<RecUp>>, <<RecUps, RecUp>> }

\* the movies rated: (movie_id, title as typed)
RatedMovies == { <<1, TUp>>, <<1, TUpPadded>>, <<2, TOther>> }

Ratings == {8}

InvalidateDays == {7}

\* a step of the clock: two steps take a set past the 30 days of the queries
TickDays == RecentDays \div 2 + 1

Next ==
    \/ \E u \in Users, recs \in RecLists, ok \in BOOLEAN :
          SaveCall(u, recs, "general", ok, MaxSets)
    \/ \E ok \in BOOLEAN : SaveItem(ok)
    \/ \E ok \in BOOLEAN : SaveCommit(ok)
    \/ \E u \in Users, m \in RatedMovies, r \in Ratings :
          Validate(u, m[1], m[2], r, MaxQuality)
    \/ \E u \in Users, d \in InvalidateDays : InvalidateOld(u, d)
    \/ Tick(TickDays, MaxDay)

Spec == Init /\ [][Next]_vars

----------------------------------------------------------------------------
(* Claims about the version store *)

StatusOf(mv, version_id) == {mv[i].status : i \in VersionIndex(mv, version_id)}

\* C1: after activate_model_version(v2) with deactivate_previous=True returns, for
\* any version id v2 passed in, exactly one version is active and it is v2.
C1_ActivatedIsSoleActive ==
    (ret.op = "activate_model_version" /\ ret.deactivate_previous)
        => ActiveVersions(model_versions) = {ret.version_id}

\* C2 as claimed: at most one version is active in every reachable state, whatever
\* deactivate_previous was in the activate calls.
C2_AtMostOneActive == Cardinality(ActiveVersions(model_versions)) <= 1

\* C2 as amended: no call other than an activate with deactivate_previous=False takes
\* the store from at most one active version to more than one, and an activate with
\* deactivate_previous=True always leaves at most one.
C2_AtMostOneActiveWhenDeactivating ==
    [][ /\ ( /\ Cardinality(ActiveVersions(model_versions)) <= 1
             /\ ~(ret'.op = "activate_model_version" /\ ~ret'.deactivate_previous) )
           => Cardinality(ActiveVersions(model_versions')) <= 1
        /\ (ret'.op = "activate_model_version" /\ ret'.deactivate_previous)
           => Cardinality(ActiveVersions(model_versions')) <= 1 ]_vars

\* C2 witness: an activation with deactivate_previous=True has superseded another
\* version, which is now inactive, and the activated one is the only active one.
C2_Witness ==
    /\ ret.op = "activate_model_version"
    /\ ret.deactivate_previous
    /\ ActiveVersions(model_versions) = {ret.version_id}
    /\ \E i \in DOMAIN model_versions : model_versions[i].status = "inactive"

AllowedTransitions ==
    { <<"training", "ready">>, <<"ready", "active">>, <<"ready", "inactive">>,
      <<"active", "inactive">> }

\* C3: every status change made by create / evaluate / activate is (new) -> training,
\* training -> ready, ready -> active, ready -> inactive or active -> inactive.
C3_OnlyAllowedTransitions ==
    [][ \A i \in DOMAIN model_versions' :
          IF i \in DOMAIN model_versions
          THEN \/ model_versions'[i].status = model_versions[i].status
               \/ <<model_versions[i].status, model_versions'[i].status>> \in AllowedTransitions
          ELSE model_versions'[i].status = "training" ]_vars

----------------------------------------------------------------------------
(* The version store as the web routes and retrain_model.py drive it *)

MaxSetsRoutes == 1

\* the one recommendation list saved in this specification, and the ratings given:
\* 0.8 predicted against a rating of 8 is a correct prediction, against 1 a wrong one
RoutesRecs == << [title |-> TUp, hybrid_score |-> 8, id |-> 1] >>

RoutesRatings == {1, 8}

NextRoutes ==
    \/ TriggerRetraining
    \/ \E v \in VersionIds \cup {UnknownVersion} : ActivateVersionRoute(v)
    \/ \E force \in BOOLEAN, dry_run \in BOOLEAN :
          RetrainMain(force, dry_run, RetrainThreshold, RetrainDaysBack, DefaultMinSamples)
    \/ \E r \in RoutesRatings : Validate(1, 1, TUp, r, MaxQualityLong)
    \/ \E ok \in BOOLEAN : SaveCall(1, RoutesRecs, "general", ok, MaxSetsRoutes)
    \/ \E ok \in BOOLEAN : SaveItem(ok)
    \/ \E ok \in BOOLEAN : SaveCommit(ok)
    \/ Tick(EvalWindowDays, MaxDayRoutes)

SpecRoutes == Init /\ [][NextRoutes]_vars

\* C4: every active version has a non-null test_accuracy.
C4_ActiveIsEvaluated ==
    \A i \in DOMAIN model_versions :
        model_versions[i].status = "active" => model_versions[i].test_accuracy # NULL

----------------------------------------------------------------------------
(* Two concurrent activate_model_version calls *)

NextConcurrent ==
    \/ CreateVersion(V1Initial, DefaultMinSamples)
    \/ \E v \in VersionIds : EvaluateVersion(v, << << <<8, 8, 0>> >> >>)
    \/ \E w \in Workers, v \in VersionIds \cup {UnknownVersion}, d \in BOOLEAN : ActCall(w, v, d)
    \/ \E w \in Workers : ActDeactivate(w)
    \/ \E w \in Workers : ActActivate(w)
    \/ \E w \in Workers : ActCommit(w)
    \/ \E w \in Workers : ActBusy(w)
    \/ ActReset

SpecConcurrent == Init /\ [][NextConcurrent]_vars

\* two calls for different versions of the store, both with deactivate_previous=True
TwoActivationsOf(v1, v2) ==
    /\ v1 # v2
    /\ act[1].version_id = v1 /\ act[2].version_id = v2
    /\ \A w \in Workers : act[w].known /\ act[w].deactivate_previous

\* C5: when two concurrent activate_model_version calls for different versions v1
\* and v2, both with deactivate_previous=True, have both returned, exactly one
\* version is active, and it is v1 or v2.
C5_ConcurrentActivationsLeaveOneActive ==
    ( /\ \A w \in Workers : act[w].pc = "done"
      /\ ret.op = "activate_return"
      /\ TwoActivationsOf(act[1].version_id, act[2].version_id) )
    => /\ Cardinality(ActiveVersions(model_versions)) = 1
       /\ ActiveVersions(model_versions) \subseteq {act[1].version_id, act[2].version_id}

\* C5 witness: both calls have returned, and the second began (and found the
\* database locked or not) while the first was still inside its transaction
C5_Witness ==
    /\ \A w \in Workers : act[w].pc = "done"
    /\ ret.op = "activate_return"
    /\ TwoActivationsOf(act[1].version_id, act[2].version_id)
    /\ Cardinality(ActiveVersions(model_versions)) = 1
    /\ \E i \in DOMAIN model_versions : model_versions[i].status = "inactive"

----------------------------------------------------------------------------
(* Claims about the tracker *)

\* the set row an item row belongs to
SetOf(item) == recommendation_sets[item.recommendation_set_id]

\* the title matches the item's, exactly or as a substring either way
TitleMatches(item, movie_title) ==
    \/ ExactTitleMatch(item.movie_title, NormalizedTitle(movie_title))
    \/ PartialTitleMatch(item.movie_title, NormalizedTitle(movie_title))

\* the set is the user's, still valid, and generated within the last 30 days
RecentValidSetOf(rs, user_id) ==
    rs.user_id = user_id /\ rs.is_valid = 1 /\ now - rs.generated_at < RecentDays

\* (user, title) matches no item of any recent valid set of that user
MatchesNothing(user_id, movie_title) ==
    \A i \in DOMAIN recommendation_set_items :
        RecentValidSetOf(SetOf(recommendation_set_items[i]), user_id)
            => ~TitleMatches(recommendation_set_items[i], movie_title)

C7_StoredQualityFormula ==
    \A i \in DOMAIN recommendation_quality :
        LET q     == recommendation_quality[i]
            error == Abs(q.predicted_score - q.actual_rating)
        IN  /\ q.quality_score = Max(0, Scale - error)
            /\ q.was_correct <=> (error <= CorrectTolerance)

\* C8: save_recommendation_set is all-or-nothing.  While a call is under way the
\* committed tables do not change; a call that returns -1 leaves them as they were;
\* a call that returns a set id has added that set row and one item row for every
\* recommendation, ranked 1..N.
C8_SaveIsAllOrNothing ==
    [][ /\ ret'.op \in {"save_call", "save_item"}
           => UNCHANGED <<recommendation_sets, recommendation_set_items>>
        /\ (ret'.op = "save_recommendation_set" /\ ret'.set_id = -1)
           => UNCHANGED <<recommendation_sets, recommendation_set_items>>
        /\ (ret'.op = "save_recommendation_set" /\ ret'.set_id # -1)
           => /\ ret'.set_id = Len(recommendation_sets) + 1
              /\ Len(recommendation_sets') = ret'.set_id
              /\ SubSeq(recommendation_sets', 1, Len(recommendation_sets))
                    = recommendation_sets
              /\ recommendation_sets'[ret'.set_id].user_id = ret'.user_id
              /\ Len(recommendation_set_items')
                    = Len(recommendation_set_items) + Len(ret'.recommendations)
              /\ SubSeq(recommendation_set_items', 1, Len(recommendation_set_items))
                    = recommendation_set_items
              /\ \A k \in 1..Len(ret'.recommendations) :
                    LET row == recommendation_set_items'[Len(recommendation_set_items) + k]
                    IN  /\ row.recommendation_set_id = ret'.set_id
                        /\ row.rank_position = k ]_vars

\* C8 witness: a call failed after its set row and at least one item row had been
\* inserted, returned -1, and no set row is stored
C8_Witness ==
    /\ ret.op = "save_recommendation_set"
    /\ ret.set_id = -1
    /\ ret.items_done >= 1
    /\ ret.items_done < Len(ret.recommendations)
    /\ recommendation_sets = <<>>
    /\ recommendation_set_items = <<>>

\* C10: a validation that reports a match used an item of a set of the same user
\* that is valid and at most 30 days old, and recorded that set in the quality row.
C10_MatchOnlyInOwnRecentValidSet ==
    (ret.op = "validate" /\ ret.result.was_in_recommendations)
    => LET sid == ret.result.recommendation_set_id[1]
       IN  /\ sid \in DOMAIN recommendation_sets
           /\ recommendation_sets[sid].user_id = ret.user_id
           /\ recommendation_sets[sid].is_valid = 1
           /\ now - recommendation_sets[sid].generated_at <= RecentDays
           /\ recommendation_quality[Len(recommendation_quality)].recommendation_set_id = sid

\* C10 witness: a match was reported in a set generated on an earlier day
C10_Witness ==
    /\ ret.op = "validate"
    /\ ret.result.was_in_recommendations
    /\ recommendation_sets[ret.result.recommendation_set_id[1]].generated_at < now

----------------------------------------------------------------------------
(* check_for_model_revalidation over a user's history of validated ratings *)

MaxQualityRevalidation == 6

\* 0.8 predicted: a rating of 1 gives quality 0.3, a rating of 8 quality 1.0
RevalidationRatings == {1, 8}

\* the default threshold: 0.5
RevalidationThresholds == {5}

NextRevalidation ==
    \/ \E ok \in BOOLEAN : SaveCall(1, RoutesRecs, "general", ok, MaxSetsRoutes)
    \/ \E ok \in BOOLEAN : SaveItem(ok)
    \/ \E ok \in BOOLEAN : SaveCommit(ok)
    \/ \E r \in RevalidationRatings : Validate(1, 1, TUp, r, MaxQualityRevalidation)
    \/ \E u \in Users, t \in RevalidationThresholds : CheckRevalidation(u, t)
    \/ Tick(TickDays, MaxDay)

SpecRevalidation == Init /\ [][NextRevalidation]_vars

\* the quality_score values of the user's records of the last 30 days
RecentScoresOf(user_id) ==
    LET rows == SelectSeq(recommendation_quality,
                          LAMBDA q : q.user_id = user_id /\ now - q.checked_at < RecentDays)
    IN  [i \in DOMAIN rows |-> rows[i].quality_score]

\* C9: check_for_model_revalidation returns needs_revalidation = true if and only if
\* the user has at least 5 quality records in the last 30 days and their average
\* quality_score is below the threshold (so exactly 5 records averaging 0.3 against
\* a threshold of 0.5 give true).
C9_RevalidationIffFiveAndLow ==
    ret.op = "check_for_model_revalidation"
    => LET scores == RecentScoresOf(ret.user_id)
       IN  ret.result.needs_revalidation
           <=> ( /\ Len(scores) >= 5
                 /\ SumSeq(scores) < ret.threshold * Len(scores) )

----------------------------------------------------------------------------
(* A/B tests between versions created and evaluated *)

MaxTests == 1

\* `total` test records (predicted, actual, error), the first `correct` of them within 0.2
TestRecords(correct, total) ==
    [i \in 1..total |-> IF i <= correct THEN <<8, 8, 0>> ELSE <<8, 3, 5>>]

\* test_data arguments: lists that evaluate to the accuracies 0.60 and 0.55
AbTestData == { <<TestRecords(12, 20)>>, <<TestRecords(11, 20)>> }

\* the ids passed to start_ab_test: the first two versions created, and an id that
\* names no version
AbVersions == {1, 2, UnknownVersion}

NextAbTests ==
    \/ CreateVersion(V1Initial, DefaultMinSamples)
    \/ \E v \in AbVersions \ {UnknownVersion}, td \in AbTestData : EvaluateVersion(v, td)
    \/ \E a \in AbVersions, b \in AbVersions, same \in BOOLEAN :
          StartAbTest(a, b, same, MaxTests)
    \/ \E t \in 1..(MaxTests + 1) : EvaluateAbTest(t)

SpecAbTests == Init /\ [][NextAbTests]_vars

\* the accuracy stored for a version that has a row
AccuracyOfVersion(version_id) ==
    model_versions[CHOOSE i \in DOMAIN model_versions :
                       model_versions[i].version_id = version_id].test_accuracy

\* both versions of the test have a row with a test accuracy
BothEvaluated(t) ==
    /\ \A v \in {t.version_a_id, t.version_b_id} :
          \E i \in DOMAIN model_versions :
             /\ model_versions[i].version_id = v
             /\ model_versions[i].test_accuracy # NULL
    /\ t.version_a_id # t.version_b_id

\* what an evaluate_ab_test call on test t must have recorded: status completed, a winner
\* of the highest accuracy, that accuracy as confidence, and the winner the call would
\* have recorded had the two versions been passed to start_ab_test the other way round
AbOutcomeAsClaimed(t, t_after) ==
    LET a == AccuracyOfVersion(t.version_a_id)
        b == AccuracyOfVersion(t.version_b_id)
        w == t_after.winner_id[1]
    IN  /\ t_after.status = "completed"
        /\ w \in {t.version_a_id, t.version_b_id}
        /\ ~RatioGreater(a, AccuracyOfVersion(w)) /\ ~RatioGreater(b, AccuracyOfVersion(w))
        /\ t_after.confidence_score = <<AccuracyOfVersion(w)>>
        /\ w = AbWinner(t.version_b_id, t.version_a_id, b, a)

\* C11 as claimed: evaluate_ab_test on a test whose two versions have test accuracies
\* a and b completes the test, records the version of higher accuracy as winner with
\* confidence max(a, b), and the winner does not depend on the order of the versions.
C11_AbWinnerIsBestWhateverTheOrder ==
    [][ \A id \in DOMAIN ab_tests :
          (ret'.op = "evaluate_ab_test" /\ ret'.test_id = id /\ BothEvaluated(ab_tests[id]))
          => AbOutcomeAsClaimed(ab_tests[id], ab_tests'[id]) ]_vars

\* C11 as amended: the same, for accuracies that differ; with equal accuracies the
\* test is completed with that accuracy as confidence and version_b as winner.
C11_AbWinnerIsBestUnlessTied ==
    [][ \A id \in DOMAIN ab_tests :
          (ret'.op = "evaluate_ab_test" /\ ret'.test_id = id /\ BothEvaluated(ab_tests[id]))
          => LET t == ab_tests[id]
                 a == AccuracyOfVersion(t.version_a_id)
                 b == AccuracyOfVersion(t.version_b_id)
             IN  IF a # b
                 THEN AbOutcomeAsClaimed(t, ab_tests'[id])
                 ELSE /\ ab_tests'[id].status = "completed"
                      /\ ab_tests'[id].winner_id = <<t.version_b_id>>
                      /\ ab_tests'[id].confidence_score = <<a>> ]_vars

\* C11 witness: a test between a version of accuracy 0.60 and one of 0.55 was
\* evaluated; the 0.60 version won with confidence 0.60, although it was version_b
C11_Witness ==
    /\ ret.op = "evaluate_ab_test"
    /\ ~ret.raised
    /\ ret.result # NULL
    /\ ret.result[1].accuracy_a = Ratio(11, 20)
    /\ ret.result[1].accuracy_b = Ratio(12, 20)
    /\ ret.result[1].winner = ret.result[1].version_b
    /\ ab_tests[ret.test_id].status = "completed"
    /\ ab_tests[ret.test_id].winner_id = <<ret.result[1].version_b>>
    /\ ab_tests[ret.test_id].confidence_score = <<Ratio(12, 20)>>

----------------------------------------------------------------------------
(* Versions created, evaluated on the recent quality records and put in production,
   as the days pass *)

NextLifecycle ==
    \/ \E base \in {V1Initial, 1} : CreateVersion(base, DefaultMinSamples)
    \/ \E v \in VersionIds, td \in {<<>>, <<TestRecords(1, 1)>>} : EvaluateVersion(v, td)
    \/ \E v \in VersionIds : ActivateVersion(v, TRUE)
    \/ Validate(1, 1, TUp, 8, MaxQuality)
    \/ Tick(EvalWindowDays, MaxDayRoutes)

SpecLifecycle == Init /\ [][NextLifecycle]_vars

\* C12: every A/B test with status completed and a recorded winner references two
\* versions that both exist and both have a non-null test_accuracy.
C12_CompletedTestsCompareEvaluatedVersions ==
    \A id \in DOMAIN ab_tests :
        (ab_tests[id].status = "completed" /\ ab_tests[id].winner_id # NULL)
        => \A v \in {ab_tests[id].version_a_id, ab_tests[id].version_b_id} :
              \E i \in DOMAIN model_versions :
                 /\ model_versions[i].version_id = v
                 /\ model_versions[i].test_accuracy # NULL

\* C13: create_model_version(parent, data, reason) adds exactly one version, with an
\* id no existing version has, status training, parent_version_id = parent,
\* training_samples = data.total_predictions and no test_accuracy, and leaves every
\* existing version, the active one included, as it was.
C13_CreateAddsOneTrainingVersion ==
    [][ ret'.op = "create_model_version"
        => /\ Len(model_versions') = Len(model_versions) + 1
           /\ \A i \in DOMAIN model_versions : model_versions'[i] = model_versions[i]
           /\ LET new == model_versions'[Len(model_versions')]
              IN  /\ new.version_id = ret'.version_id
                  /\ \A i \in DOMAIN model_versions :
                        model_versions[i].version_id # new.version_id
                  /\ new.status = "training"
                  /\ new.parent_version_id = ret'.base_version
                  /\ new.training_samples = ret'.total_predictions
                  /\ new.test_accuracy = NULL ]_vars

\* C13 witness: a version was created from the active version, which is still active
C13_Witness ==
    /\ ret.op = "create_model_version"
    /\ \E i \in DOMAIN model_versions :
          /\ model_versions[i].status = "active"
          /\ model_versions[i].version_id = ret.base_version
          /\ model_versions[i].version_id # ret.version_id
    /\ model_versions[Len(model_versions)].status = "training"

\* C14: evaluate_model_version(v) without test_data, when no quality record was
\* checked in the last 7 days, returns None and leaves the version store unchanged.
C14_EvaluateWithoutDataChangesNothing ==
    [][ ( /\ ret'.op = "evaluate_model_version"
          /\ ret'.test_data = <<>>
          /\ \A i \in DOMAIN recommendation_quality :
                ~(now - recommendation_quality[i].checked_at < EvalWindowDays) )
        => /\ ret'.metrics = NULL
           /\ model_versions' = model_versions ]_vars

\* C14 witness: the evaluation of a stored version that is still in training returned
\* None although a quality record is stored: it is 7 days old
C14_Witness ==
    /\ ret.op = "evaluate_model_version"
    /\ ret.test_data = <<>>
    /\ ret.metrics = NULL
    /\ recommendation_quality # <<>>
    /\ \E i \in DOMAIN model_versions :
          /\ model_versions[i].version_id = ret.version_id
          /\ model_versions[i].status = "training"
          /\ model_versions[i].test_accuracy = NULL

----------------------------------------------------------------------------
(* Training data and the retraining trigger read from the validated ratings *)

MaxQualityTraining == 3

\* the ratings validated: user 1 rates the recommended movie 1 (rating 1 is within the
\* tolerance of the predicted score, 8 is not), user 2 rates movies never recommended
TrainingValidations == { <<1, 1, TUp, 1>>, <<1, 1, TUp, 8>>, <<2, 1, TUp, 8>>, <<2, 2, TOther, 8>> }

\* user_id of the readers: None or a user
TrainingUsers == {NULL, <<1>>}

\* days_back: the evaluation window and the default of 30 days
TrainingDaysBack == {EvalWindowDays, RetrainDaysBack}

TrainingMinSamples == {1, 2}

\* accuracy thresholds in tenths: 0.5 and 1.0
TrainingThresholds == {5, 10}

NextTraining ==
    \/ \E ok \in BOOLEAN : SaveCall(1, RoutesRecs, "general", ok, MaxSetsRoutes)
    \/ \E ok \in BOOLEAN : SaveItem(ok)
    \/ \E ok \in BOOLEAN : SaveCommit(ok)
    \/ \E v \in TrainingValidations : Validate(v[1], v[2], v[3], v[4], MaxQualityTraining)
    \/ \E u \in TrainingUsers, d \in TrainingDaysBack, m \in TrainingMinSamples :
          CreateWeightedTrainingDataCall(u, d, m)
    \/ \E t \in TrainingThresholds : ShouldRetrainCall(t)
    \/ Tick(EvalWindowDays, MaxDayRoutes)

SpecTraining == Init /\ [][NextTraining]_vars

\* the stored quality records of movie m that a call with these arguments selects:
\* checked less than days_back days ago, and of the user when one is given
RecordsInWindow(m, user_id, days_back) ==
    {i \in DOMAIN recommendation_quality :
        /\ recommendation_quality[i].movie_id = m
        /\ now - recommendation_quality[i].checked_at < days_back
        /\ (user_id # NULL => recommendation_quality[i].user_id = user_id[1])}

CorrectInWindow(m, user_id, days_back) ==
    {i \in RecordsInWindow(m, user_id, days_back) : recommendation_quality[i].was_correct}

RatedMovieIds == {recommendation_quality[i].movie_id : i \in DOMAIN recommendation_quality}

\* C15: create_weighted_training_data(user, days_back, min_samples) returns a dataset
\* whose movie_stats holds exactly the movies with at least min_samples quality records
\* inside the window, each with sample_count = its number of records; it returns None
\* exactly when no movie reaches min_samples.
C15_DatasetKeepsMoviesWithEnoughSamples ==
    ret.op = "create_weighted_training_data"
        => LET reached == {m \in RatedMovieIds :
                              Cardinality(RecordsInWindow(m, ret.user_id, ret.days_back))
                                  >= ret.min_samples}
           IN  /\ ret.result = NULL <=> reached = {}
               /\ ret.result # NULL
                    => /\ DOMAIN ret.result[1].movie_stats = reached
                       /\ \A m \in reached :
                             ret.result[1].movie_stats[m].sample_count =
                                 Cardinality(RecordsInWindow(m, ret.user_id, ret.days_back))

\* C15 witness: a dataset was returned that keeps one movie with 2 records and drops
\* another rated movie that has a record in the window but fewer than min_samples
C15_Witness ==
    /\ ret.op = "create_weighted_training_data"
    /\ ret.min_samples = 2
    /\ ret.result # NULL
    /\ \E m \in DOMAIN ret.result[1].movie_stats :
          ret.result[1].movie_stats[m].sample_count = 2
    /\ \E m \in RatedMovieIds :
          /\ m \notin DOMAIN ret.result[1].movie_stats
          /\ RecordsInWindow(m, ret.user_id, ret.days_back) # {}

\* C16: every movie of the returned dataset has accuracy = correct records / records
\* and weight = accuracy^2 + 0.1: 1.1 at accuracy 1, 0.1 at accuracy 0, strictly
\* positive, and not smaller for a movie with a higher accuracy.
C16_WeightIsSquaredAccuracyPlusTenth ==
    (ret.op = "create_weighted_training_data" /\ ret.result # NULL)
        => LET stats == ret.result[1].movie_stats
           IN  /\ \A m \in DOMAIN stats :
                     LET n == Cardinality(RecordsInWindow(m, ret.user_id, ret.days_back))
                         c == Cardinality(CorrectInWindow(m, ret.user_id, ret.days_back))
                         w == stats[m].weight
                     IN  /\ stats[m].accuracy[1] * n = c * stats[m].accuracy[2]
                         /\ stats[m].accuracy[2] > 0
                         \* w = (c/n)^2 + 1/10
                         /\ w[1] * 10 * n * n = (10 * c * c + n * n) * w[2]
                         /\ w[2] > 0 /\ w[1] > 0
                         /\ c = n => w = <<11, 10>>
                         /\ c = 0 => w = <<1, 10>>
               /\ \A m1, m2 \in DOMAIN stats :
                     RatioGreater(stats[m1].accuracy, stats[m2].accuracy)
                         => ~RatioGreater(stats[m2].weight, stats[m1].weight)

\* C16 witness: a dataset holds a movie of accuracy 1/2 (weight 0.35) next to a movie
\* of accuracy 0 (weight 0.1)
C16_Witness ==
    /\ ret.op = "create_weighted_training_data"
    /\ ret.result # NULL
    /\ \E m1, m2 \in DOMAIN ret.result[1].movie_stats :
          /\ ret.result[1].movie_stats[m1].accuracy = <<1, 2>>
          /\ ret.result[1].movie_stats[m1].weight = <<7, 20>>
          /\ ret.result[1].movie_stats[m2].accuracy = <<0, 1>>
          /\ ret.result[1].movie_stats[m2].weight = <<1, 10>>

\* the quality records checked in the last 7 days
CheckedLastWeek ==
    {i \in DOMAIN recommendation_quality :
        now - recommendation_quality[i].checked_at < EvalWindowDays}

\* C17: should_retrain(threshold) returns (accuracy < threshold, accuracy), accuracy
\* being the fraction of the quality records checked in the last 7 days that have
\* was_correct set; with no such record it returns (False, 0); it changes no stored
\* state.
C17_ShouldRetrainComparesWeeklyAccuracy ==
    [][ ret'.op = "should_retrain"
        => LET total   == Cardinality(CheckedLastWeek)
               correct == Cardinality({i \in CheckedLastWeek :
                                          recommendation_quality[i].was_correct})
               below   == ret'.result[1]
               acc     == ret'.result[2]
           IN  /\ UNCHANGED <<now, model_versions, trackerTables, ab_tests, movies, feedbackState,
                              save_tx, db_writer, act>>
               /\ total = 0 => (~below /\ acc[1] = 0)
               /\ total > 0
                    => /\ acc[1] * total = correct * acc[2]
                       /\ acc[2] > 0
                       \* accuracy < threshold, the threshold in tenths
                       /\ below <=> (correct * 10 < ret'.threshold * total) ]_vars

\* C17 witness: should_retrain(0.5) answered (False, 0.5): one of the two records of
\* the last 7 days is correct, and an older record is stored that is not counted
C17_Witness ==
    /\ ret.op = "should_retrain"
    /\ ret.threshold = 5
    /\ ret.result = <<FALSE, <<1, 2>>>>
    /\ Cardinality(CheckedLastWeek) = 2
    /\ Len(recommendation_quality) = 3

----------------------------------------------------------------------------
(* feedback_reinforcement.py: dislikes kept as negative training examples *)

\* weights and adjustments of this module are in thousandths
DislikeWeightMultiplier == 800

FeedbackAccumulationThreshold == 20

\* the default of get_negative_training_batch(limit)
DefaultBatchLimit == 100

\* the row _save_negative_training_example INSERTs: example_id is the AUTOINCREMENT
\* key, created_at the time of the call (rows are stored in that order),
\* used_in_training takes its DEFAULT 0; predicted_score is in tenths
NegativeExampleRow(example_id, user_id, movie_id, movie_title, predicted_score) ==
    [example_id       |-> example_id,
     user_id          |-> user_id,
     movie_id         |-> movie_id,
     movie_title      |-> movie_title,
     actual_rating    |-> 0,
     predicted_rating |-> predicted_score,
     error            |-> Abs(predicted_score - 0),
     weight           |-> DislikeWeightMultiplier,
     used_in_training |-> 0]

\* apply_dislike_to_training_data(user_id, movie_id, movie_title, predicted_score);
\* the INSERT may fail, and the example is returned all the same
ApplyDislike(user_id, movie_id, movie_title, predicted_score, insert_ok, max_examples) ==
    /\ Len(negative_training_examples) < max_examples
    /\ negative_training_examples' =
          IF insert_ok
          THEN Append(negative_training_examples,
                      NegativeExampleRow(Len(negative_training_examples) + 1, user_id,
                                         movie_id, movie_title, predicted_score))
          ELSE negative_training_examples
    /\ ret' = [op |-> "apply_dislike_to_training_data", saved |-> insert_ok,
               result |-> [user_id |-> user_id, movie_id |-> movie_id,
                           movie_title |-> movie_title, actual_rating |-> 0,
                           predicted_rating |-> predicted_score,
                           weight |-> DislikeWeightMultiplier]]
    /\ UNCHANGED <<now, model_versions, trackerTables, ab_tests, movies, feature_config, user_dislikes, save_tx,
                   db_writer, act>>

\* SELECT ... WHERE used_in_training = 0 ORDER BY created_at DESC: newest first
UntrainedExamples(nte) ==
    LET unused == SelectSeq(nte, LAMBDA e : e.used_in_training = 0)
    IN  [i \in 1..Len(unused) |-> unused[Len(unused) + 1 - i]]

\* get_untrained_negative_feedback_count(): 0 as well when the table does not exist
UntrainedCount(nte) == Len(UntrainedExamples(nte))

\* ReachedThreshold with > in place of >=
ReachedThreshold_Above(untrained_count) == untrained_count > FeedbackAccumulationThreshold

\* untrained_count >= FEEDBACK_ACCUMULATION_THRESHOLD
ReachedThreshold(untrained_count) == untrained_count >= FeedbackAccumulationThreshold

\* should_retrain_from_feedback(): reads only
ShouldRetrainFromFeedback ==
    /\ ret' = [op |-> "should_retrain_from_feedback",
               result |-> ReachedThreshold(UntrainedCount(negative_training_examples))]
    /\ UNCHANGED <<now, model_versions, trackerTables, ab_tests, movies, feedbackState, save_tx,
                   db_writer, act>>

\* get_negative_training_batch(limit): the example_ids of the rows returned; reads only
GetNegativeTrainingBatch(limit) ==
    LET unused == UntrainedExamples(negative_training_examples)
    IN  /\ ret' = [op |-> "get_negative_training_batch", limit |-> limit,
                   result |-> [i \in 1..(IF limit < Len(unused) THEN limit ELSE Len(unused))
                                  |-> unused[i].example_id]]
        /\ UNCHANGED <<now, model_versions, trackerTables, ab_tests, movies, feedbackState, save_tx,
                       db_writer, act>>

\* UPDATE ... SET used_in_training = 1 WHERE example_id = ?, for each id of the list
MarkUsed(nte, example_ids) ==
    [i \in DOMAIN nte |->
        IF \E k \in DOMAIN example_ids : example_ids[k] = nte[i].example_id
        THEN [nte[i] EXCEPT !.used_in_training = 1]
        ELSE nte[i]]

\* mark_negative_examples_as_used(example_ids); the table exists once an example was
\* saved, and the UPDATE raises (caught: False) before that
MarkNegativeExamplesAsUsed(example_ids) ==
    /\ negative_training_examples' = MarkUsed(negative_training_examples, example_ids)
    /\ ret' = [op |-> "mark_negative_examples_as_used", example_ids |-> example_ids,
               result |-> (negative_training_examples # <<>> \/ example_ids = <<>>)]
    /\ UNCHANGED <<now, model_versions, trackerTables, ab_tests, movies, feature_config, user_dislikes, save_tx,
                   db_writer, act>>

MaxExamples == 21

\* an example_id no row has
UnknownExample == MaxExamples + 2

\* the id lists marked: the whole batch of unused examples, the first example, an id
\* that no row has, nothing
MarkedIdLists ==
    LET unused == UntrainedExamples(negative_training_examples)
    IN  { [i \in DOMAIN unused |-> unused[i].example_id], <<1>>, <<UnknownExample>>, <<>> }

BatchLimits == {1, DefaultBatchLimit}

NextFeedback ==
    \/ \E ok \in BOOLEAN : ApplyDislike(1, <<1>>, TUp, 8, ok, MaxExamples)
    \/ ShouldRetrainFromFeedback
    \/ \E l \in BatchLimits : GetNegativeTrainingBatch(l)
    \/ \E ids \in MarkedIdLists : MarkNegativeExamplesAsUsed(ids)

SpecFeedback == Init /\ [][NextFeedback]_vars

UnusedExamples(nte) == {i \in DOMAIN nte : nte[i].used_in_training = 0}

\* C18: should_retrain_from_feedback() is true exactly when at least 20 examples have
\* used_in_training = 0; an example starts with the flag 0, the flag becomes 1 only in
\* mark_negative_examples_as_used and never returns to 0, and no used example is
\* returned by get_negative_training_batch.
C18_FeedbackRetrainAtTwentyUnused ==
    [][ /\ ret'.op = "should_retrain_from_feedback"
           => (ret'.result
                 <=> Cardinality(UnusedExamples(negative_training_examples')) >= 20)
        /\ Len(negative_training_examples') >= Len(negative_training_examples)
        /\ \A i \in DOMAIN negative_training_examples' :
              IF i \in DOMAIN negative_training_examples
              THEN /\ negative_training_examples[i].used_in_training = 1
                        => negative_training_examples'[i].used_in_training = 1
                   /\ negative_training_examples'[i].used_in_training
                          # negative_training_examples[i].used_in_training
                        => ret'.op = "mark_negative_examples_as_used"
              ELSE negative_training_examples'[i].used_in_training = 0
        /\ ret'.op = "get_negative_training_batch"
           => \A k \in DOMAIN ret'.result :
                 \E i \in UnusedExamples(negative_training_examples') :
                    negative_training_examples'[i].example_id = ret'.result[k]
      ]_vars

\* C18 witness: should_retrain_from_feedback() answered true with exactly 20 unused
\* examples stored next to a used one
C18_Witness ==
    /\ ret.op = "should_retrain_from_feedback"
    /\ ret.result
    /\ Cardinality(UnusedExamples(negative_training_examples)) = 20
    /\ Len(negative_training_examples) = 21

----------------------------------------------------------------------------
(* feedback_reinforcement.py: feature adjustments computed from a dislike and applied
   to a feature configuration *)

GenreDeemphasisFactor == 150

CastDeemphasisFactor == 100

\* movie_metadata['cast'][:5]
TopCastCount == 5

\* .get(key, 1.0): the weight of a key not stored yet
DefaultFeatureWeight == 1000

\* max(0.1, ...)
MinFeatureWeight == 100

\* a dict from the keys to one value
Each(keys, value) == [k \in keys |-> value]

Elements(list) == {list[i] : i \in DOMAIN list}

\* TopCast without the slice
TopCast_All(cast) == cast

\* cast[:5]
TopCast(cast) == SubSeq(cast, 1, IF Len(cast) < TopCastCount THEN Len(cast) ELSE TopCastCount)

\* calculate_feature_adjustment_from_dislike(movie_metadata, reason); a key of
\* movie_metadata is <<>> when absent and <<list>> when present, and so is should_filter
\* in the result
CalculateFeatureAdjustment(movie_metadata, reason) ==
    LET genres == IF movie_metadata.genres = NULL THEN {}
                  ELSE Elements(movie_metadata.genres[1])
        cast   == IF movie_metadata.cast = NULL THEN {}
                  ELSE Elements(TopCast(movie_metadata.cast[1]))
    IN  [genre_adjustments |->
            << IF reason = "wrong_genre" THEN Each(genres, -GenreDeemphasisFactor)
               ELSE IF reason = "not_interested"
               THEN Each(genres, -(GenreDeemphasisFactor \div 2))
               ELSE Each({}, 0) >>,
         cast_adjustments |->
            << IF reason = "poor_quality" THEN Each(cast, -CastDeemphasisFactor)
               ELSE Each({}, 0) >>,
         franchise_adjustment |-> <<0>>,
         reason        |-> reason,
         should_filter |-> IF reason = "already_watched" THEN <<TRUE>> ELSE NULL]

\* a call of calculate_feature_adjustment_from_dislike: computes only
CalculateFeatureAdjustmentCall(movie_metadata, reason) ==
    /\ ret' = [op |-> "calculate_feature_adjustment_from_dislike",
               movie_metadata |-> movie_metadata, reason |-> reason,
               result |-> CalculateFeatureAdjustment(movie_metadata, reason)]
    /\ UNCHANGED <<now, model_versions, trackerTables, ab_tests, movies, feedbackState, save_tx,
                   db_writer, act>>

\* FlooredWeight without the floor
FlooredWeight_None(weight) == weight

\* max(0.1, weight)
FlooredWeight(weight) == Max(MinFeatureWeight, weight)

\* one of the weight dicts after its adjustments: weights is <<>> when the
\* configuration has no such dict, adjustments is <<>> when the adjustments have no
\* such key
AdjustedWeights(weights, adjustments) ==
    IF adjustments = NULL THEN weights
    ELSE LET current == IF weights = NULL THEN Each({}, 0) ELSE weights[1]
             adj     == adjustments[1]
         IN  << [k \in DOMAIN current \cup DOMAIN adj |->
                    IF k \in DOMAIN adj
                    THEN FlooredWeight((IF k \in DOMAIN current THEN current[k]
                                        ELSE DefaultFeatureWeight) + adj[k])
                    ELSE current[k]] >>

AdjustedFranchise(franchise_weight, franchise_adjustment) ==
    IF franchise_adjustment = NULL THEN franchise_weight
    ELSE << FlooredWeight((IF franchise_weight = NULL THEN DefaultFeatureWeight
                           ELSE franchise_weight[1]) + franchise_adjustment[1]) >>

AdjustedConfig(config, adjustments) ==
    [genre_weights    |-> AdjustedWeights(config.genre_weights, adjustments.genre_adjustments),
     cast_weights     |-> AdjustedWeights(config.cast_weights, adjustments.cast_adjustments),
     franchise_weight |-> AdjustedFranchise(config.franchise_weight,
                                            adjustments.franchise_adjustment)]

AllWeights(config) ==
    (IF config.genre_weights = NULL THEN {}
     ELSE {config.genre_weights[1][k] : k \in DOMAIN config.genre_weights[1]})
    \cup (IF config.cast_weights = NULL THEN {}
          ELSE {config.cast_weights[1][k] : k \in DOMAIN config.cast_weights[1]})
    \cup (IF config.franchise_weight = NULL THEN {} ELSE {config.franchise_weight[1]})

\* the caller's dict once the call has run.  updated_config = feature_config.copy() is
\* a new dict whose values are the caller's own objects: a key added to it or rebound in
\* it (franchise_weight, a weights dict that was missing) does not reach the caller,
\* while updated_config['genre_weights'][genre] = ... and the same for cast_weights write
\* into the dict the caller's configuration holds
CallerConfigAfter(config, adjustments) ==
    [genre_weights    |-> IF config.genre_weights = NULL THEN NULL
                          ELSE AdjustedWeights(config.genre_weights,
                                               adjustments.genre_adjustments),
     cast_weights     |-> IF config.cast_weights = NULL THEN NULL
                          ELSE AdjustedWeights(config.cast_weights,
                                               adjustments.cast_adjustments),
     franchise_weight |-> config.franchise_weight]

\* apply_feature_adjustments(feature_config, adjustments), fed the configuration the
\* call before returned
ApplyFeatureAdjustments(adjustments, max_weight) ==
    LET updated_config == AdjustedConfig(feature_config, adjustments)
    IN  /\ \A w \in AllWeights(updated_config) : w <= max_weight
        /\ feature_config' = updated_config
        /\ ret' = [op |-> "apply_feature_adjustments", adjustments |-> adjustments,
                   caller_config |-> CallerConfigAfter(feature_config, adjustments),
                   result |-> updated_config]
        /\ UNCHANGED <<now, model_versions, trackerTables, ab_tests, movies,
                       negative_training_examples, user_dislikes, save_tx, db_writer, act>>

MaxFeatureWeight == 1000

\* movie_metadata: two genres and six cast members; one genre and an empty cast list;
\* no key at all
MetadataFull  == [genres |-> << <<"Action", "Drama">> >>,
                  cast   |-> << <<"A1", "A2", "A3", "A4", "A5", "A6">> >>]
MetadataShort == [genres |-> << <<"Action">> >>, cast |-> << <<>> >>]
MetadataEmpty == [genres |-> NULL, cast |-> NULL]

MovieMetadata == {MetadataFull, MetadataShort, MetadataEmpty}

DislikeReasons ==
    {"wrong_genre", "poor_quality", "already_watched", "not_interested", "irrelevant", "other"}

\* adjustments that no dislike produces: far below the floor, upward, and without keys
HeavyAdjustment ==
    [genre_adjustments |-> << Each({"Drama"}, -2000) >>, cast_adjustments |-> NULL,
     franchise_adjustment |-> <<-2000>>, reason |-> "other", should_filter |-> NULL]
UpwardAdjustment ==
    [genre_adjustments |-> << Each({"Action"}, 300) >>, cast_adjustments |-> NULL,
     franchise_adjustment |-> <<300>>, reason |-> "other", should_filter |-> NULL]
NoAdjustment ==
    [genre_adjustments |-> NULL, cast_adjustments |-> NULL,
     franchise_adjustment |-> NULL, reason |-> "other", should_filter |-> NULL]

AppliedAdjustments ==
    {CalculateFeatureAdjustment(m, r) : m \in MovieMetadata, r \in DislikeReasons}
        \cup {HeavyAdjustment, UpwardAdjustment, NoAdjustment}

\* the configurations the calls start from: {} and one whose weights are below the floor
EmptyConfig == [genre_weights |-> NULL, cast_weights |-> NULL, franchise_weight |-> NULL]
LowConfig   == [genre_weights |-> << Each({"Action"}, 50) >>, cast_weights |-> NULL,
                franchise_weight |-> <<50>>]

InitFeatures ==
    /\ now = 0
    /\ model_versions = <<>>
    /\ recommendation_sets = <<>>
    /\ recommendation_set_items = <<>>
    /\ recommendation_quality = <<>>
    /\ save_tx = IdleTx
    /\ db_writer = 0
    /\ act = IdleAct
    /\ ab_tests = <<>>
    /\ negative_training_examples = <<>>
    /\ feature_config \in {EmptyConfig, LowConfig}
    /\ user_dislikes = <<>>
    /\ movies = {}
    /\ ret = [op |-> "init"]

NextFeatures ==
    \/ \E m \in MovieMetadata, r \in DislikeReasons : CalculateFeatureAdjustmentCall(m, r)
    \/ \E a \in AppliedAdjustments : ApplyFeatureAdjustments(a, MaxFeatureWeight)

SpecFeatures == InitFeatures /\ [][NextFeatures]_vars

\* the keys an adjustments dict touches in one of the weight dicts
TouchedKeys(adjustments) == IF adjustments = NULL THEN {} ELSE DOMAIN adjustments[1]

StoredKeys(weights) == IF weights = NULL THEN {} ELSE DOMAIN weights[1]

\* C19: after every apply_feature_adjustments call of a sequence, with any
\* adjustments, every genre weight, cast weight and the franchise weight of the
\* returned configuration that an adjustment touched is at least 0.1; a weight the
\* call does not touch keeps the value the calls before left.
C19_TouchedWeightsStayAtOrAboveFloor ==
    [][ ret'.op = "apply_feature_adjustments"
        => LET adj == ret'.adjustments
               cfg == ret'.result
           IN  /\ \A g \in TouchedKeys(adj.genre_adjustments) : cfg.genre_weights[1][g] >= 100
               /\ \A a \in TouchedKeys(adj.cast_adjustments) : cfg.cast_weights[1][a] >= 100
               /\ adj.franchise_adjustment # NULL => cfg.franchise_weight[1] >= 100
               /\ \A g \in StoredKeys(feature_config.genre_weights)
                           \ TouchedKeys(adj.genre_adjustments) :
                     cfg.genre_weights[1][g] = feature_config.genre_weights[1][g]
               /\ \A a \in StoredKeys(feature_config.cast_weights)
                           \ TouchedKeys(adj.cast_adjustments) :
                     cfg.cast_weights[1][a] = feature_config.cast_weights[1][a]
               /\ adj.franchise_adjustment = NULL
                     => cfg.franchise_weight = feature_config.franchise_weight ]_vars

\* C19 witness: in a sequence of calls, an adjustment of -2.0 left the genre and the
\* franchise weight it touched at 0.1, while cast weights touched by an earlier call
\* are stored and a genre weight no call touched is still 0.05
C19_Witness ==
    /\ ret.op = "apply_feature_adjustments"
    /\ ret.adjustments = HeavyAdjustment
    /\ ret.result.cast_weights # NULL
    /\ ret.result.franchise_weight = <<100>>
    /\ StoredKeys(ret.result.genre_weights) = {"Action", "Drama"}
    /\ ret.result.genre_weights[1]["Drama"] = 100
    /\ ret.result.genre_weights[1]["Action"] = 50

\* C20: calculate_feature_adjustment_from_dislike gives, for wrong_genre, each genre
\* of the movie -0.15 and no cast adjustment; for poor_quality, each of the first 5
\* cast members at most -0.10 and no genre adjustment; for not_interested, each genre
\* -0.075; for already_watched, the should_filter flag and no genre, cast or franchise
\* change; for irrelevant and other, no adjustment at all.
C20_AdjustmentFollowsReason ==
    ret.op = "calculate_feature_adjustment_from_dislike"
        => LET m      == ret.movie_metadata
               genres == IF m.genres = NULL THEN {}
                         ELSE {m.genres[1][i] : i \in DOMAIN m.genres[1]}
               first5 == IF m.cast = NULL THEN {}
                         ELSE {m.cast[1][i] : i \in DOMAIN m.cast[1] \cap 1..5}
               ga     == ret.result.genre_adjustments[1]
               ca     == ret.result.cast_adjustments[1]
           IN  /\ ret.reason = "wrong_genre"
                    => /\ DOMAIN ga = genres /\ \A g \in genres : ga[g] = -150
                       /\ DOMAIN ca = {}
               /\ ret.reason = "poor_quality"
                    => /\ DOMAIN ca = first5 /\ \A a \in first5 : ca[a] = -100
                       /\ DOMAIN ga = {}
               /\ ret.reason = "not_interested"
                    => DOMAIN ga = genres /\ \A g \in genres : ga[g] = -75
               /\ ret.reason = "already_watched"
                    => /\ ret.result.should_filter = <<TRUE>>
                       /\ DOMAIN ga = {} /\ DOMAIN ca = {}
                       /\ ret.result.franchise_adjustment = <<0>>
               /\ ret.reason \in {"irrelevant", "other"}
                    => /\ DOMAIN ga = {} /\ DOMAIN ca = {}
                       /\ ret.result.franchise_adjustment = <<0>>
                       /\ ret.result.should_filter = NULL

\* C20 witness: poor_quality on a movie with six cast members adjusted the first five
\* and left the sixth out
C20_Witness ==
    /\ ret.op = "calculate_feature_adjustment_from_dislike"
    /\ ret.reason = "poor_quality"
    /\ ret.movie_metadata = MetadataFull
    /\ DOMAIN ret.result.cast_adjustments[1] = {"A1", "A2", "A3", "A4", "A5"}
    /\ \A a \in DOMAIN ret.result.cast_adjustments[1] : ret.result.cast_adjustments[1][a] = -100

----------------------------------------------------------------------------
(* feedback_system: dislikes recorded by save_dislike and POST /api/dislike *)

\* the empty title ""
TEmpty == <<>>

\* class DislikeReason
DislikeReason ==
    {"wrong_genre", "poor_quality", "already_watched", "not_interested", "irrelevant", "other"}

\* the row save_dislike INSERTs: every argument is bound as it was passed
DislikeRow(user_id, movie_id, movie_title, recommendation_set_id, predicted_score, reason) ==
    [user_id               |-> user_id,
     movie_id              |-> movie_id,
     movie_title           |-> movie_title,
     recommendation_set_id |-> recommendation_set_id,
     predicted_score       |-> predicted_score,
     reason                |-> reason]

\* save_dislike(user_id, movie_id, movie_title, recommendation_set_id, predicted_score,
\* reason), called directly; -1 when the INSERT fails
SaveDislike(user_id, movie_id, movie_title, predicted_score, reason, insert_ok, max_dislikes) ==
    /\ Len(user_dislikes) < max_dislikes
    /\ user_dislikes' =
          IF insert_ok
          THEN Append(user_dislikes,
                      DislikeRow(user_id, movie_id, movie_title, NULL, predicted_score, reason))
          ELSE user_dislikes
    /\ ret' = [op |-> "save_dislike", reason |-> reason,
               dislike_id |-> IF insert_ok THEN Len(user_dislikes) + 1 ELSE -1]
    /\ UNCHANGED <<now, model_versions, trackerTables, ab_tests, movies, negative_training_examples,
                   feature_config, save_tx, db_writer, act>>

\* data.get(key, default) of the request JSON: a key is <<>> when absent, <<value>> else
PayloadGet(field, default) == IF field = NULL THEN default ELSE field[1]

\* POST /api/dislike (handle_dislike); user_id is <<>> when neither the X-User-ID
\* header nor the session gives one; modules_found is whether the imports at the top
\* of the handler resolve; the negative training example is saved after the dislike
HandleDislike(user_id, data, modules_found, insert_ok, max_dislikes, max_examples) ==
    LET reason == PayloadGet(data.reason, "not_interested")
        score  == PayloadGet(data.predicted_score, 0)
        call   == [op |-> "handle_dislike", data |-> data]
    IN  /\ Len(user_dislikes) < max_dislikes
        /\ Len(negative_training_examples) < max_examples
        /\ IF ~modules_found
           THEN /\ ret' = call @@ [code |-> 500]
                /\ UNCHANGED <<user_dislikes, negative_training_examples>>
           ELSE IF data.movie_title = NULL \/ data.movie_title = <<TEmpty>>
           THEN /\ ret' = call @@ [code |-> 400]
                /\ UNCHANGED <<user_dislikes, negative_training_examples>>
           ELSE IF user_id = NULL
           THEN /\ ret' = call @@ [code |-> 401]
                /\ UNCHANGED <<user_dislikes, negative_training_examples>>
           ELSE IF ~insert_ok
           THEN /\ ret' = call @@ [code |-> 500]
                /\ UNCHANGED <<user_dislikes, negative_training_examples>>
           ELSE /\ user_dislikes' =
                      Append(user_dislikes,
                             DislikeRow(user_id[1], data.movie_id, data.movie_title[1],
                                        data.recommendation_set_id, score, reason))
                /\ negative_training_examples' =
                      Append(negative_training_examples,
                             NegativeExampleRow(Len(negative_training_examples) + 1,
                                                user_id[1], data.movie_id,
                                                data.movie_title[1], score))
                /\ ret' = call @@ [code |-> 201, dislike_id |-> Len(user_dislikes) + 1,
                                   feature_adjustments |->
                                       CalculateFeatureAdjustment(
                                           [genres |-> <<PayloadGet(data.genres, <<>>)>>,
                                            cast   |-> <<PayloadGet(data.cast, <<>>)>>],
                                           reason)]
        /\ UNCHANGED <<now, model_versions, trackerTables, ab_tests, movies, feature_config,
                       save_tx, db_writer, act>>

MaxDislikes == 2

MaxDislikeExamples == 2

\* the reason of a request: absent, one of the enumeration, or another string
PayloadReasons == {NULL, <<"wrong_genre">>, <<"poor_quality">>, <<"boring">>}

\* the JSON bodies posted
DislikePayloads ==
    { [movie_title |-> t, movie_id |-> <<1>>, recommendation_set_id |-> NULL,
       predicted_score |-> <<8>>, reason |-> r,
       genres |-> << <<"Action">> >>, cast |-> NULL] :
         t \in {NULL, <<TEmpty>>, <<TUp>>}, r \in PayloadReasons }

\* the reason argument of a direct call
SavedReasons == {"not_interested", "other", "boring"}

NextDislikes ==
    \/ \E r \in SavedReasons, ok \in BOOLEAN : SaveDislike(1, <<1>>, TUp, 8, r, ok, MaxDislikes)
    \/ \E u \in {NULL, <<1>>}, d \in DislikePayloads, found \in BOOLEAN, ok \in BOOLEAN :
          HandleDislike(u, d, found, ok, MaxDislikes, MaxDislikeExamples)

SpecDislikes == Init /\ [][NextDislikes]_vars

\* C21: every dislike record persisted through save_dislike or the POST /api/dislike
\* handler, whatever the request payload, has a reason of the enumeration wrong_genre,
\* poor_quality, already_watched, not_interested, irrelevant, other.
C21_StoredReasonIsEnumerated ==
    \A i \in DOMAIN user_dislikes : user_dislikes[i].reason \in DislikeReason

----------------------------------------------------------------------------
(* Recommendation sets saved one after the other and read back from the cache *)

MaxSetsCache == 2

\* the lists saved: one recommendation with its component scores, and two
CacheRecLists ==
    { << [title |-> TUp, hybrid_score |-> 8, cast_score |-> 3, id |-> 1] >>,
      << [title |-> TOther, hybrid_score |-> 9, genre_score |-> 5, id |-> 2],
         [title |-> TUps, score |-> 3] >> }

CacheSavedTypes == {"general", "genre_based"}

CacheLimits == {1, 10}

NextCache ==
    \/ \E recs \in CacheRecLists, t \in CacheSavedTypes, ok \in BOOLEAN :
          SaveCall(1, recs, t, ok, MaxSetsCache)
    \/ \E ok \in BOOLEAN : SaveItem(ok)
    \/ \E ok \in BOOLEAN : SaveCommit(ok)
    \/ \E d \in InvalidateDays : InvalidateOld(1, d)
    \/ \E u \in Users, l \in CacheLimits : GetCachedRecommendations(u, l)
    \/ Tick(TickDays, MaxDay)

SpecCache == Init /\ [][NextCache]_vars

\* C22: a set saved with N items is read back by the next get_cached_recommendations of
\* its user: under the set's type the call returns the first min(limit, N) of the saved
\* items, in rank order and with every score they were saved with.
C22_SavedSetIsReadBack ==
    [][ ( /\ ret.op = "save_recommendation_set"
          /\ ret.set_id > 0
          /\ ret'.op = "get_cached_recommendations"
          /\ ret'.user_id = ret.user_id )
        => ret'.result[recommendation_sets[ret.set_id].recommendation_type]
              = FirstN(ret.recommendations, ret'.limit) ]_vars

\* C23: at any time at most one valid set exists per (user, type): a successful save
\* leaves every earlier set of its user and type invalid.
C23_OneValidSetPerUserAndType ==
    \A i, j \in DOMAIN recommendation_sets :
        ( /\ i < j
          /\ recommendation_sets[i].user_id = recommendation_sets[j].user_id
          /\ recommendation_sets[i].recommendation_type
                = recommendation_sets[j].recommendation_type
          /\ recommendation_sets[j].is_valid = 1 )
        => recommendation_sets[i].is_valid = 0

----------------------------------------------------------------------------
(* app.py: POST /addShow stores the movie and reconciles its rating *)

\* Python truthiness of data.get("userRating"): <<>> is an absent key
Rated(user_rating) == user_rating # NULL /\ user_rating[1] # 0

\* INSERT OR REPLACE INTO movies: PRIMARY KEY (id, user_id)
ReplacedMovies(rows, row) ==
    {r \in rows : ~(r.id = row.id /\ r.user_id = row.user_id)} \cup {row}

\* the ROWID SQLite gives an inserted row: one more than the largest in the table
NextRowid(rows) ==
    IF rows = {} THEN 1 ELSE 1 + CHOOSE n \in {r.rowid : r \in rows} : \A r \in rows : r.rowid <= n

\* POST /addShow (add_show): user_id is <<>> without a session; the movie is stored,
\* and with a rating and a title validate_recommendation_against_rating is called
AddShow(user_id, data, max_quality, max_shows) ==
    LET call == [op |-> "add_show", user_id |-> user_id, data |-> data]
    IN  /\ db_writer = 0
        /\ Len(recommendation_quality) < max_quality
        /\ NextRowid(movies) <= max_shows
        /\ IF user_id = NULL
           THEN /\ ret' = call @@ [code |-> 401]
                /\ UNCHANGED <<movies, recommendation_quality>>
           ELSE IF data.id = NULL
           THEN /\ ret' = call @@ [code |-> 400]
                /\ UNCHANGED <<movies, recommendation_quality>>
           ELSE /\ movies' = ReplacedMovies(movies,
                                 [rowid |-> NextRowid(movies),
                                  id |-> data.id[1], user_id |-> user_id[1],
                                  title |-> data.title, genres |-> data.genres,
                                  userRating |-> data.userRating])
                /\ IF Rated(data.userRating) /\ data.title # NULL
                   THEN LET found == FoundRecommendation(recommendation_sets,
                                         recommendation_set_items, user_id[1],
                                         data.title[1], now)
                        IN  IF found # {}
                            THEN \E i \in found :
                                   /\ recommendation_quality' =
                                         Append(recommendation_quality,
                                                FoundQualityRow(recommendation_set_items[i],
                                                                user_id[1], data.id[1],
                                                                data.title[1],
                                                                data.userRating[1], now))
                                   /\ ret' = call @@ [code |-> 200, validated |-> TRUE]
                            ELSE /\ recommendation_quality' =
                                       Append(recommendation_quality,
                                              ExternalQualityRow(user_id[1], data.id[1],
                                                                 data.title[1],
                                                                 data.userRating[1], now))
                                 /\ ret' = call @@ [code |-> 200, validated |-> TRUE]
                   ELSE /\ ret' = call @@ [code |-> 200, validated |-> FALSE]
                        /\ UNCHANGED recommendation_quality
        /\ UNCHANGED <<now, model_versions, recommendation_sets, recommendation_set_items,
                       ab_tests, feedbackState, save_tx, db_writer, act>>

MaxQualityShows == 2

\* the requests that stored a movie
MaxShows == 3

\* the JSON bodies posted: with and without id, title and rating
ShowPayloads ==
    { [id |-> i, title |-> t, genres |-> NULL, userRating |-> r] :
        i \in {NULL, <<1>>}, t \in {NULL, <<TUp>>}, r \in {NULL, <<0>>, <<8>>} }

NextShows ==
    \/ \E ok \in BOOLEAN : SaveCall(1, RoutesRecs, "general", ok, MaxSetsRoutes)
    \/ \E ok \in BOOLEAN : SaveItem(ok)
    \/ \E ok \in BOOLEAN : SaveCommit(ok)
    \/ \E u \in {NULL, <<1>>, <<2>>}, d \in ShowPayloads : AddShow(u, d, MaxQualityShows, MaxShows)

SpecShows == Init /\ [][NextShows]_vars

\* C24: after any sequence of add_show requests the store holds at most one quality
\* record per (user, movie): submitting the same movie again does not leave records
\* that count one rating twice.
C24_OneQualityRecordPerUserAndMovie ==
    \A i, j \in DOMAIN recommendation_quality :
        ( /\ recommendation_quality[i].user_id = recommendation_quality[j].user_id
          /\ recommendation_quality[i].movie_id = recommendation_quality[j].movie_id )
        => i = j

----------------------------------------------------------------------------
(* model_training/model.py: the three recommendation modes and what they exclude *)

\* an id as text: the CSV column read without a schema ("1" or "1.0"), and str() of
\* the float that the REAL column movies.id gives back ("1.0")
IdText(number, decimal) == [number |-> number, decimal |-> decimal]

\* str(uid), uid read from the REAL column movies.id
PyStrOfReal(number) == IdText(number, TRUE)

\* a row of the catalog df_all; avg_rating is 0..10
CatalogRow(id, title, genres, avg_rating) ==
    [id |-> id, title |-> title, genres |-> genres, avg_rating |-> avg_rating]

\* output.csv with the ids written as decimals, and with the ids written as integers
CatalogDecimal ==
    { CatalogRow(IdText(1, TRUE), TUp, <<"Action">>, 8),
      CatalogRow(IdText(2, TRUE), TOther, <<"Drama">>, 6),
      CatalogRow(IdText(3, TRUE), TUps, <<"Action", "Drama">>, 7) }
CatalogInteger ==
    { CatalogRow(IdText(1, FALSE), TUp, <<"Action">>, 8),
      CatalogRow(IdText(2, FALSE), TOther, <<"Drama">>, 6),
      CatalogRow(IdText(3, FALSE), TUps, <<"Action", "Drama">>, 7) }

Catalogs == {CatalogDecimal, CatalogInteger}

\* top_n=10
DefaultTopN == 10

\* SELECT * FROM movies WHERE user_id = ? AND userRating IS NOT NULL AND userRating > 0
UserRatedMovies(rows, user_id) ==
    {r \in rows : r.user_id = user_id /\ r.userRating # NULL /\ r.userRating[1] > 0}

\* df_all.filter(~col("id").isin(user_ids_list)): a comparison of strings
FilteredCatalog(catalog, user_ids_list) == {c \in catalog : c.id \notin user_ids_list}

\* get_top_recommendations(user_id, top_n) over a catalog of at most top_n rows, so
\* that limit(top_n) keeps every scored row
GetTopRecommendations(user_id, catalog, top_n) ==
    LET rated == UserRatedMovies(movies, user_id)
    IN  /\ Cardinality(catalog) <= top_n
        /\ ret' = [op |-> "get_top_recommendations", user_id |-> user_id,
                   result |-> IF rated = {} THEN {}
                              ELSE FilteredCatalog(catalog,
                                                   {PyStrOfReal(r.id) : r \in rated})]
        /\ UNCHANGED <<now, model_versions, trackerTables, ab_tests, movies, feedbackState,
                       save_tx, db_writer, act>>

\* SELECT * FROM movies WHERE user_id = ? ORDER BY ROWID DESC LIMIT 1
LastAddedMovie(rows, user_id) ==
    {r \in rows : /\ r.user_id = user_id
                  /\ \A q \in rows : q.user_id = user_id => q.rowid <= r.rowid}

\* get_recommendations_for_last_added(user_id, top_n): df_all.filter(col("id") !=
\* last_movie_id), over a catalog of at most top_n rows
GetRecommendationsForLastAdded(user_id, catalog, top_n) ==
    LET last == LastAddedMovie(movies, user_id)
    IN  /\ Cardinality(catalog) <= top_n
        /\ ret' = [op |-> "get_recommendations_for_last_added", user_id |-> user_id,
                   result |-> IF last = {} THEN {}
                              ELSE {c \in catalog :
                                      \A r \in last : c.id # PyStrOfReal(r.id)}]
        /\ UNCHANGED <<now, model_versions, trackerTables, ab_tests, movies, feedbackState,
                       save_tx, db_writer, act>>

\* SELECT genres FROM movies WHERE user_id = ? AND genres IS NOT NULL AND genres != ''
UserGenreRows(rows, user_id) ==
    {r \in rows : r.user_id = user_id /\ r.genres # NULL /\ r.genres[1] # <<>>}

\* get_recommendations_by_most_common_genre(user_id, top_n): every row of df_all is
\* scored (0.70 * genre_match + 0.30 * avg_rating / 10) and the top_n are returned;
\* over a catalog of at most top_n rows that is every row
GetRecommendationsByMostCommonGenre(user_id, catalog, top_n) ==
    /\ Cardinality(catalog) <= top_n
    /\ ret' = [op |-> "get_recommendations_by_most_common_genre", user_id |-> user_id,
               result |-> IF UserGenreRows(movies, user_id) = {} THEN {} ELSE catalog]
    /\ UNCHANGED <<now, model_versions, trackerTables, ab_tests, movies, feedbackState,
                   save_tx, db_writer, act>>

MaxQualityRecommend == 2

MaxShowsRecommend == 2

\* the movies added: rated or not, with genres
RecommendPayloads ==
    { [id |-> <<i>>, title |-> <<TUp>>, genres |-> << <<"Action">> >>, userRating |-> r] :
        i \in {1, 2}, r \in {NULL, <<8>>} }

NextRecommend ==
    \/ \E u \in {<<1>>, <<2>>}, d \in RecommendPayloads :
          AddShow(u, d, MaxQualityRecommend, MaxShowsRecommend)
    \/ \E u \in Users, c \in Catalogs : GetTopRecommendations(u, c, DefaultTopN)
    \/ \E u \in Users, c \in Catalogs : GetRecommendationsForLastAdded(u, c, DefaultTopN)
    \/ \E u \in Users, c \in Catalogs : GetRecommendationsByMostCommonGenre(u, c, DefaultTopN)

SpecRecommend == Init /\ [][NextRecommend]_vars

\* C25: get_top_recommendations and get_recommendations_by_most_common_genre never
\* return a movie the user has rated, and get_recommendations_for_last_added never
\* returns the movie added last, for every catalog and history.
C25_ExcludedMoviesAreNotReturned ==
    /\ ret.op \in {"get_top_recommendations", "get_recommendations_by_most_common_genre"}
         => \A c \in ret.result, r \in UserRatedMovies(movies, ret.user_id) :
               c.id.number # r.id
    /\ ret.op = "get_recommendations_for_last_added"
         => \A c \in ret.result, r \in LastAddedMovie(movies, ret.user_id) :
               c.id.number # r.id

----------------------------------------------------------------------------
(* recommendation_tracker.py: get_model_performance_metrics *)

\* the rows of GROUP BY rs.recommendation_type, in the order SQLite's sorter emits them
TypeOrder == <<"general", "genre_based", "last_added">>

\* recommendation_sets LEFT JOIN recommendation_quality ON rs.id = rq.recommendation_set_id,
\* for the sets of one type: <<set id, quality row>>, or <<set id, NULL>> for a set
\* without quality rows
JoinedRows(sets, rq, rec_type) ==
    LET ids == {i \in DOMAIN sets : sets[i].recommendation_type = rec_type}
    IN  {<<rq[j].recommendation_set_id, <<rq[j]>> >> :
            j \in {k \in DOMAIN rq : rq[k].recommendation_set_id \in ids}}
          \cup {<<i, NULL>> : i \in {k \in ids :
                                        \A j \in DOMAIN rq : rq[j].recommendation_set_id # k}}

\* AVG(CASE WHEN rq.was_correct = 1 THEN 1 ELSE 0 END): a joined row without a quality
\* row counts as 0, so the average is never NULL
TypeAccuracy(joined) ==
    Ratio(Cardinality({j \in joined : j[2] # NULL /\ j[2][1].was_correct}),
          Cardinality(joined))

\* COUNT(rq.id)
ValidatedCount(joined) == Cardinality({j \in joined : j[2] # NULL})

\* Python's truth value of a float: 0.0 is false
Truthy(ratio) == ratio[1] # 0

\* the types that have a row in the breakdown
TypesPresent(sets) == {sets[i].recommendation_type : i \in DOMAIN sets}

\* recommendations_by_type
RecommendationsByType(sets, rq) ==
    [t \in TypesPresent(sets) |->
        [count    |-> ValidatedCount(JoinedRows(sets, rq, t)),
         accuracy |-> TypeAccuracy(JoinedRows(sets, rq, t))]]

\* if result['top_performing_type'] is None and row['type_accuracy']
TopPerformingType(sets, rq) ==
    LET by_type == RecommendationsByType(sets, rq)
        hits    == {i \in DOMAIN TypeOrder :
                      /\ TypeOrder[i] \in DOMAIN by_type
                      /\ Truthy(by_type[TypeOrder[i]].accuracy)}
    IN  IF hits = {} THEN NULL
        ELSE <<TypeOrder[CHOOSE i \in hits : \A j \in hits : i <= j]>>

\* the accuracy query over recommendation_quality, and `if metrics['accuracy']`:
\* accuracy_rate stays 0.0 unless the average is non-zero
AccuracyRate(rows) ==
    IF rows = {} THEN Ratio(0, 1)
    ELSE Ratio(Cardinality({j \in rows : j[2].was_correct}), Cardinality(rows))

\* get_model_performance_metrics(user_id). With a user_id the per-type query carries
\* "WHERE user_id = ?" over the join of two tables that both have the column, SQLite
\* raises "ambiguous column name" and the result filled so far is returned.
GetModelPerformanceMetrics(user_id) ==
    LET filtered == user_id # NULL /\ user_id[1] # 0
        set_ids  == {i \in DOMAIN recommendation_sets :
                       filtered => recommendation_sets[i].user_id = user_id[1]}
        rq_rows  == {<<j, recommendation_quality[j]>> : j \in
                       {k \in DOMAIN recommendation_quality :
                          filtered => recommendation_quality[k].user_id = user_id[1]}}
    IN  /\ ret' = [op |-> "get_model_performance_metrics", user_id |-> user_id,
                   total_recommendations |-> Cardinality(set_ids),
                   total_validated |-> Cardinality(rq_rows),
                   accuracy_rate |-> AccuracyRate(rq_rows),
                   recommendations_by_type |->
                       IF filtered THEN <<>>
                       ELSE RecommendationsByType(recommendation_sets,
                                                  recommendation_quality),
                   top_performing_type |->
                       IF filtered THEN NULL
                       ELSE TopPerformingType(recommendation_sets,
                                              recommendation_quality)]
        /\ UNCHANGED <<now, model_versions, trackerTables, ab_tests, movies, feedbackState,
                       save_tx, db_writer, act>>

MaxSetsMetrics == 2

MaxQualityMetrics == 2

\* the ratings given: 8 agrees with the predicted 8, 1 does not
MetricsRatings == {1, 8}

NextMetrics ==
    \/ \E t \in CacheTypes : SaveCall(1, RoutesRecs, t, TRUE, MaxSetsMetrics)
    \/ SaveItem(TRUE)
    \/ SaveCommit(TRUE)
    \/ \E m \in {<<1, TUp>>, <<2, TOther>>}, r \in MetricsRatings :
          Validate(1, m[1], m[2], r, MaxQualityMetrics)
    \/ \E u \in {NULL, <<1>>} : GetModelPerformanceMetrics(u)

SpecMetrics == Init /\ [][NextMetrics]_vars

\* the first type of a breakdown, in its iteration order
FirstType(by_type) ==
    LET hits == {i \in DOMAIN TypeOrder : TypeOrder[i] \in DOMAIN by_type}
    IN  TypeOrder[CHOOSE i \in hits : \A j \in hits : i <= j]

\* C26: get_model_performance_metrics reports as top_performing_type the first type of
\* the per-type breakdown, in its iteration order, whose accuracy is not null; an
\* accuracy of 0.0 is not null, so when the first type of the breakdown has validated
\* records (its accuracy is then a number, 0.0 if all of them are incorrect) it is the
\* type reported.
C26_TopIsFirstTypeWithAccuracy ==
    ( /\ ret.op = "get_model_performance_metrics"
      /\ DOMAIN ret.recommendations_by_type # {}
      /\ ret.recommendations_by_type[FirstType(ret.recommendations_by_type)].count > 0 )
        => ret.top_performing_type = <<FirstType(ret.recommendations_by_type)>>

----------------------------------------------------------------------------
(* model_training/model.py: cast_sim_udf, the position-weighted cast similarity *)

\* weight = 1.0 if i < 5 else (0.7 if i < 15 else 0.3), in tenths; i counts from 0
PositionWeight(i) == IF i < 5 THEN 10 ELSE IF i < 15 THEN 7 ELSE 3

\* [c.strip() for c in ... if c.strip()]
StrippedNames(cast) ==
    LET kept == SelectSeq(cast, LAMBDA c : PyStrip(c) # <<>>)
    IN  [i \in DOMAIN kept |-> PyStrip(kept[i])]

\* the dict built by `for i, c in enumerate(names): weighted[c] = weight`: a name that
\* occurs twice keeps the weight of its last position
PositionWeighted(names) ==
    [c \in {names[i] : i \in DOMAIN names} |->
        PositionWeight((CHOOSE i \in DOMAIN names :
                           /\ names[i] = c
                           /\ \A j \in DOMAIN names : names[j] = c => j <= i) - 1)]

RECURSIVE SumOver(_, _)
\* sum(weights[c] for c in keys)
SumOver(weights, keys) ==
    IF keys = {} THEN 0
    ELSE LET c == CHOOSE k \in keys : TRUE
         IN  weights[c] + SumOver(weights, keys \ {c})

\* min(1.0, overlap_weight / max_weight), as a fraction
ClippedRatio(overlap_weight, max_weight) ==
    IF overlap_weight > max_weight THEN Ratio(1, 1) ELSE Ratio(overlap_weight, max_weight)

\* cast_sim_udf(cast_array) with bc_cast.value = the names of user_cast joined by "|"
CastSim(user_cast, cast_array) ==
    LET user_cast_weighted  == PositionWeighted(StrippedNames(user_cast))
        movie_cast_weighted == PositionWeighted(StrippedNames(cast_array))
        shared              == DOMAIN movie_cast_weighted \cap DOMAIN user_cast_weighted
        \* sum(user_cast_weighted.get(c, 0) for c in movie_cast_weighted)
        overlap_weight      == SumOver(user_cast_weighted, shared)
        max_weight          == SumOver(movie_cast_weighted, DOMAIN movie_cast_weighted)
    IN  IF cast_array = <<>> \/ user_cast = <<>> THEN Ratio(0, 1)
        ELSE IF DOMAIN user_cast_weighted = {} \/ DOMAIN movie_cast_weighted = {}
             THEN Ratio(0, 1)
        ELSE ClippedRatio(overlap_weight, max_weight)

CastSimCall(user_cast, cast_array) ==
    /\ ret' = [op |-> "cast_sim_udf", user_cast |-> user_cast, cast_array |-> cast_array,
               result |-> CastSim(user_cast, cast_array)]
    /\ UNCHANGED <<now, model_versions, trackerTables, ab_tests, movies, feedbackState,
                   save_tx, db_writer, act>>

\* cast names
Actor(letter) == <<letter>>

LeadCast == <<Actor("A"), Actor("B"), Actor("C"), Actor("D"), Actor("E"), Actor("F")>>

\* sixteen names: the last one is at position 15
LongCast == LeadCast \o <<Actor("G"), Actor("H"), Actor("I"), Actor("J"), Actor("K"),
                          Actor("L"), Actor("M"), Actor("N"), Actor("O"), Actor("P")>>

\* the list moved round by n places
Rotated(list, n) == [i \in DOMAIN list |-> list[((i - 1 + n) % Len(list)) + 1]]

\* the profile cast lists: empty, the six names in every rotation, the sixteen names in
\* two, one with a padded name and an empty entry
ProfileCasts ==
    {<<>>, <<Actor("Z")>>, << <<" ", "A">>, TEmpty, Actor("B") >>}
        \cup {Rotated(LeadCast, n) : n \in 0..5}
        \cup {LongCast, Rotated(LongCast, 15)}

\* the casts of the candidate movies: one or two of four names, the six names, the
\* sixteen names, and an empty array
MovieCasts ==
    {<<>>, LeadCast, LongCast, <<Actor("A"), Actor("A")>>}
        \cup {<<Actor(a)>> : a \in {"A", "F", "P", "Y"}}
        \cup {<<Actor(a), Actor(b)>> : a \in {"A", "F"}, b \in {"B", "P", "Y"}}

NextCastSim == \E u \in ProfileCasts, m \in MovieCasts : CastSimCall(u, m)

SpecCastSim == Init /\ [][NextCastSim]_vars

\* the similarity as stated: the movie's own position weights, summed over the movie's
\* names that occur in the profile, over the sum of all the movie's weights
MovieWeightedSimilarity(user_cast, cast_array) ==
    LET profile_names       == {n \in {PyStrip(user_cast[i]) : i \in DOMAIN user_cast} :
                                  n # <<>>}
        movie_cast_weighted == PositionWeighted(StrippedNames(cast_array))
        shared              == DOMAIN movie_cast_weighted \cap profile_names
    IN  IF DOMAIN movie_cast_weighted = {} \/ profile_names = {} THEN Ratio(0, 1)
        ELSE ClippedRatio(SumOver(movie_cast_weighted, shared),
                          SumOver(movie_cast_weighted, DOMAIN movie_cast_weighted))

\* C27: the cast similarity of a candidate movie is the sum of the movie's own position
\* weights over its names that also occur in the profile, divided by the sum of the
\* movie's position weights, clipped to [0, 1]; so it lies in [0, 1], is 0 for
\* disjoint casts and does not depend on where a name stands in the profile list.
C27_SimilarityUsesMovieWeights ==
    ret.op = "cast_sim_udf"
        => ret.result = MovieWeightedSimilarity(ret.user_cast, ret.cast_array)

----------------------------------------------------------------------------
(* validate_recommendation_against_rating on its own connection, while a
   save_recommendation_set is under way on another *)

\* ReadView if the reading connection saw the writer's uncommitted rows
\* (PRAGMA read_uncommitted on a shared cache)
ReadView_Uncommitted(sets, items, tx) ==
    IF tx.pc = "items" THEN <<Append(sets, tx.set_row), items \o tx.item_rows>>
    ELSE <<sets, items>>

\* what a SELECT of a connection other than the writer's reads: sqlite3.connect(DB_PATH)
\* opens a private connection, which sees the committed rows only
ReadView(sets, items, tx) == <<sets, items>>

\* a save of this user is under way and has inserted at least one item row
SaveUnderWay(user_id) ==
    /\ save_tx.pc = "items"
    /\ save_tx.user_id = user_id
    /\ save_tx.item_rows # <<>>

\* the call is made and the exact query is run
ValidateCall(w, user_id, movie_id, movie_title, user_rating, max_quality) ==
    LET view  == ReadView(recommendation_sets, recommendation_set_items, save_tx)
        exact == FirstByRank(view[2], Candidates(view[1], view[2], user_id,
                                                 NormalizedTitle(movie_title), now, FALSE))
        call  == [user_id |-> user_id, movie_id |-> movie_id,
                  movie_title |-> movie_title, user_rating |-> user_rating,
                  read_during_save |-> SaveUnderWay(user_id)]
    IN  /\ act[w].pc = "idle"
        /\ Len(recommendation_quality) < max_quality
        /\ IF exact # {}
           THEN \E i \in exact :
                  act' = [act EXCEPT ![w] = [pc |-> "insert", found |-> TRUE,
                                             item |-> view[2][i]] @@ call]
           ELSE act' = [act EXCEPT ![w] = [pc |-> "partial"] @@ call]
        /\ ret' = [op |-> "validate_call", worker |-> w]
        /\ UNCHANGED <<now, model_versions, trackerTables, ab_tests, movies, feedbackState,
                       save_tx, db_writer>>

\* if not recommendation: the partial query is run
ValidatePartial(w) ==
    LET view    == ReadView(recommendation_sets, recommendation_set_items, save_tx)
        partial == FirstByRank(view[2], Candidates(view[1], view[2], act[w].user_id,
                                                   NormalizedTitle(act[w].movie_title),
                                                   now, TRUE))
        during  == act[w].read_during_save \/ SaveUnderWay(act[w].user_id)
    IN  /\ act[w].pc = "partial"
        /\ IF partial # {}
           THEN \E i \in partial :
                  act' = [act EXCEPT ![w] =
                            [pc |-> "insert", found |-> TRUE, item |-> view[2][i],
                             user_id |-> act[w].user_id, movie_id |-> act[w].movie_id,
                             movie_title |-> act[w].movie_title,
                             user_rating |-> act[w].user_rating,
                             read_during_save |-> during]]
           ELSE act' = [act EXCEPT ![w] =
                            [pc |-> "insert", found |-> FALSE, item |-> NULL,
                             user_id |-> act[w].user_id, movie_id |-> act[w].movie_id,
                             movie_title |-> act[w].movie_title,
                             user_rating |-> act[w].user_rating,
                             read_during_save |-> during]]
        /\ ret' = [op |-> "validate_partial", worker |-> w]
        /\ UNCHANGED <<now, model_versions, trackerTables, ab_tests, movies, feedbackState,
                       save_tx, db_writer>>

\* what the call returns
ValidateReturn(w, raised) ==
    [op |-> "validate_return", worker |-> w, user_id |-> act[w].user_id,
     movie_id |-> act[w].movie_id, movie_title |-> act[w].movie_title,
     user_rating |-> act[w].user_rating, read_during_save |-> act[w].read_during_save,
     raised |-> raised,
     result |-> ValidationResult(act[w].found, act[w].item, act[w].user_rating)]

\* the INSERT into recommendation_quality and conn.commit(); the call returns
ValidateInsert(w) ==
    /\ act[w].pc = "insert"
    /\ CanWrite(w)
    /\ recommendation_quality' =
          Append(recommendation_quality,
                 IF act[w].found
                 THEN FoundQualityRow(act[w].item, act[w].user_id, act[w].movie_id,
                                      act[w].movie_title, act[w].user_rating, now)
                 ELSE ExternalQualityRow(act[w].user_id, act[w].movie_id,
                                         act[w].movie_title, act[w].user_rating, now))
    /\ act' = [act EXCEPT ![w] = [pc |-> "idle"]]
    /\ ret' = ValidateReturn(w, FALSE)
    /\ UNCHANGED <<now, model_versions, recommendation_sets, recommendation_set_items,
                   ab_tests, movies, feedbackState, save_tx, db_writer>>

\* the INSERT finds the database locked until the busy timeout runs out:
\* sqlite3.OperationalError, the except branch returns the result, nothing is written
ValidateLocked(w) ==
    /\ act[w].pc = "insert"
    /\ ~CanWrite(w)
    /\ act' = [act EXCEPT ![w] = [pc |-> "idle"]]
    /\ ret' = ValidateReturn(w, TRUE)
    /\ UNCHANGED <<now, model_versions, trackerTables, ab_tests, movies, feedbackState,
                   save_tx, db_writer>>

MaxSetsOverlap == 2

MaxQualityOverlap == 2

NextOverlap ==
    \/ \E recs \in RecLists, ok \in BOOLEAN : SaveCall(1, recs, "general", ok, MaxSetsOverlap)
    \/ \E ok \in BOOLEAN : SaveItem(ok)
    \/ \E ok \in BOOLEAN : SaveCommit(ok)
    \/ \E w \in Workers, m \in {<<1, TUp>>, <<2, TOther>>} :
          ValidateCall(w, 1, m[1], m[2], 8, MaxQualityOverlap)
    \/ \E w \in Workers : ValidatePartial(w)
    \/ \E w \in Workers : ValidateInsert(w)
    \/ \E w \in Workers : ValidateLocked(w)

SpecOverlap == Init /\ [][NextOverlap]_vars

\* the committed item rows of a set
ItemsOfSet(set_id) ==
    {i \in DOMAIN recommendation_set_items :
        recommendation_set_items[i].recommendation_set_id = set_id}

\* the set is committed and its item rows are ranked 1..N without a gap
CommittedWhole(set_id) ==
    /\ set_id \in DOMAIN recommendation_sets
    /\ ItemsOfSet(set_id) # {}
    /\ {recommendation_set_items[i].rank_position : i \in ItemsOfSet(set_id)}
          = 1..Cardinality(ItemsOfSet(set_id))

\* C28: a set being written by save_recommendation_set is not visible to a concurrent
\* validation before the save has committed.  In every interleaving, the item a
\* validation has read belongs to a committed set that has all of its items and is
\* not the set of the save under way, and every quality record refers to set 0
\* (not recommended) or to a committed set, never to the set of a save that was
\* rolled back.
C28_ValidationSeesCommittedSetsOnly ==
    /\ \A w \in Workers :
          (act[w].pc = "insert" /\ act[w].found)
             => /\ CommittedWhole(act[w].item.recommendation_set_id)
                /\ save_tx.pc = "items" => act[w].item.recommendation_set_id # save_tx.set_id
    /\ \A j \in DOMAIN recommendation_quality :
          \/ recommendation_quality[j].recommendation_set_id = 0
          \/ CommittedWhole(recommendation_quality[j].recommendation_set_id)

\* C28 witness: a validation of user 1 for "Up" ran a query while a save of user 1
\* had inserted item rows without committing, did not see them and recorded the rating
\* as external; the save was rolled back and no set is stored
C28_Witness ==
    /\ ret.op = "validate_return"
    /\ ret.read_during_save
    /\ ~ret.raised
    /\ ~ret.result.was_in_recommendations
    /\ ret.movie_title = TUp
    /\ recommendation_sets = <<>>
    /\ recommendation_quality # <<>>
    /\ recommendation_quality[Len(recommendation_quality)].recommendation_set_id = 0

----------------------------------------------------------------------------
(* retrain_model.py run several times over a growing record of validations *)

MaxQualityRetrain == 3

MaxDayRetrain == 7

\* --min-samples as given on the command line
RetrainMinSamples == {1}

NextRetrain ==
    \/ \E force \in BOOLEAN, dry_run \in BOOLEAN, n \in RetrainMinSamples :
          RetrainMain(force, dry_run, RetrainThreshold, RetrainDaysBack, n)
    \/ \E r \in RoutesRatings : Validate(1, 1, TUp, r, MaxQualityRetrain)
    \/ SaveCall(1, RoutesRecs, "general", TRUE, MaxSetsRoutes)
    \/ SaveItem(TRUE)
    \/ SaveCommit(TRUE)
    \/ Tick(EvalWindowDays, MaxDayRetrain)

SpecRetrain == Init /\ [][NextRetrain]_vars

\* a exceeds b by more than 0.05, for two fractions
ExceedsByMargin(a, b) == 100 * a[1] * b[2] > 100 * b[1] * a[2] + 5 * a[2] * b[2]

\* the run created a version and evaluated it
CreatedAndEvaluated(r) == r.outcome \in {"activated", "kept_current", "dry_run"}

----------------------------------------------------------------------------
(* Claims about the configuration apply_feature_adjustments is given *)

\* C30: apply_feature_adjustments does not modify the configuration it is given: after
\* the call the caller's feature_config, with its nested genre_weights and
\* cast_weights, holds the values it held before, and only the returned
\* configuration carries the adjusted weights.
C30_GivenConfigIsNotModified ==
    [][ ret'.op = "apply_feature_adjustments"
          => ret'.caller_config = feature_config ]_vars

====
